---- MODULE Spec2Model ----
(***************************************************************************)
(* Library View Engine of the photo gallery (src/src/lib/store.ts): the    *)
(* bounded photo cache, the pagination controller that fills it, the       *)
(* asynchronous repository calls (Tauri invoke) it suspends on, the        *)
(* functions that change photos in the repository and then in the cache,   *)
(* the derived stores filteredPhotos, groupedPhotos and visibleFolders,    *)
(* the multi-select state, the settings with their copy in localStorage,   *)
(* the debounced search field, and the import of a library.                *)
(*                                                                         *)
(* Every async function of store.ts is split at its awaits: one action for *)
(* the synchronous part up to the await, and one action per outcome of the *)
(* awaited repository call (resolved / rejected).  The calls in flight are *)
(* kept in the bag tasks.  A derived store is the operator that computes   *)
(* its value from the stores it reads and from the clock.                  *)
(***************************************************************************)
EXTENDS Integers, Sequences, FiniteSets, Bags, TLC

\* ── Program constants ──
PAGE_SIZE == 100
MAX_PHOTOS_IN_MEMORY == 2000

\* ── Bounds of the model ──
\* repository calls that may be in flight at the same time
MaxInFlight == 2
\* rejected repository calls injected in one run
MaxFailures == 1
\* records in the cache of the runs that filter, sort and group it
MaxCacheLen == 3
\* user commands in one run: changes made to the filter inputs, or calls of the
\* functions that change photos in the repository
MaxUiEvents == 2
\* loadMorePhotos calls that return at the guard in one run
MaxEarlyReturns == 1

\* sizes of the backing dataset: for the runs with every interleaving, for the
\* runs with one call at a time, and for the strictly sequential pagination runs
DatasetSizes == {0, 40, 240}
WindowDatasetSizes == {2100}
SeqDatasetSizes == {0, 40, 100, 240, 2000, 2500}
\* album ids and tag names the runs ask for: album 1 holds three photos, album 2
\* (asked for on the large dataset only) more photos than the cache may hold
AlbumIds == {1}
WindowAlbumIds == {1, 2}
TagNames == {"trip"}

VARIABLES
    dataset,          \* repository: the ordered photo table behind get_all_photos
    photos,           \* store.ts:180  writable<Photo[]>
    hasMorePhotos,    \* store.ts:184
    isLoadingMore,    \* store.ts:185
    tasks,            \* bag of async calls suspended at an await
    console,          \* last console.error line written by a catch block
    failures,         \* number of repository calls rejected so far
    earlyReturns,     \* number of loadMorePhotos calls that returned at the guard
    selectedPhoto,    \* store.ts:182  writable<Photo | null>: <<>> or <<photo>>
    selectedPhotoIds, \* store.ts:619  writable<Set<number>>
    isMultiSelectMode,\* store.ts:620
    filters,          \* store.ts:211  writable<FilterState>
    searchQuery,      \* store.ts:181
    sortBy,           \* store.ts:200
    activeSection,    \* store.ts:201
    activeSource,     \* store.ts:207
    now,              \* the wall clock read by new Date(), in half days
    uiEvents,         \* number of user commands so far that count against MaxUiEvents
    appSettings,      \* store.ts:102  writable<AppSettings>
    localStorage,     \* the item 'photo-sorter-settings' of window.localStorage
    searchTimer,      \* store.ts:486  the handle of the last setTimeout: <<>> or <<id>>
    timers,           \* the timeouts scheduled by setTimeout that have not run yet
    libraryPath,      \* store.ts:179  writable<string | null>: <<>> or <<path>>
    isIndexing,       \* store.ts:183, set by indexLibrary
    dialog            \* titles of the dialogs shown by message(), oldest first

\* the stores the Filter Pipeline reads besides photos, and the clock
viewVars == <<filters, searchQuery, sortBy, activeSection, activeSource, now, uiEvents>>
\* the detail-view selection and the multi-select state
selVars == <<selectedPhoto, selectedPhotoIds, isMultiSelectMode>>
\* the settings and their persistent copy
settingsVars == <<appSettings, localStorage>>
\* the debounce timer of the search field
timerVars == <<searchTimer, timers>>
\* the library being indexed and the dialogs shown to the user
libraryVars == <<libraryPath, isIndexing, dialog>>
\* the state outside the photo stores
shellVars == <<settingsVars, timerVars, libraryVars>>

vars == <<dataset, photos, hasMorePhotos, isLoadingMore, tasks, console, failures,
          earlyReturns, selectedPhoto, selectedPhotoIds, isMultiSelectMode, filters,
          searchQuery, sortBy, activeSection, activeSource, now, uiEvents, appSettings,
          localStorage, searchTimer, timers, libraryPath, isIndexing, dialog>>

Min(a, b) == IF a < b THEN a ELSE b

\* ── Dates (JavaScript Date in the local time zone) ──
\* A timestamp counts half days from local midnight of 1 December 2023 (a Friday);
\* an ISO date string is modelled by the timestamp new Date(string) parses it to.
\* No daylight-saving change falls in the modelled months.

\* the calendar months the timestamps of the model fall in (month is zero-based)
Calendar ==
    <<[year |-> 2023, month |-> 11, days |-> 31],
      [year |-> 2024, month |-> 0, days |-> 31],
      [year |-> 2024, month |-> 1, days |-> 29],
      [year |-> 2024, month |-> 2, days |-> 31]>>

\* 86400000 ms, one day, in half days
DAY_MS == 2
\* day of the week of the first day of Calendar (0 = Sunday)
FirstWeekday == 5

\* the calendar day a timestamp falls on, counted from the first day of Calendar
DayNumber(ts) == ts \div DAY_MS

RECURSIVE MonthRow(_, _)
\* index in Calendar of the month holding the day-th day counted from month k
MonthRow(day, k) ==
    IF day < Calendar[k].days THEN k ELSE MonthRow(day - Calendar[k].days, k + 1)

RECURSIVE DaysBefore(_)
\* days of Calendar before its k-th month
DaysBefore(k) == IF k = 1 THEN 0 ELSE DaysBefore(k - 1) + Calendar[k - 1].days

GetFullYear(ts) == Calendar[MonthRow(DayNumber(ts), 1)].year
GetMonth(ts) == Calendar[MonthRow(DayNumber(ts), 1)].month
GetDate(ts) == DayNumber(ts) - DaysBefore(MonthRow(DayNumber(ts), 1)) + 1
GetDay(ts) == (DayNumber(ts) + FirstWeekday) % 7

\* new Date(year, month, date): local midnight of that calendar day
NewDate(year, month, date) ==
    LET k == CHOOSE j \in 1..Len(Calendar) :
                 Calendar[j].year = year /\ Calendar[j].month = month
    IN (DaysBefore(k) + date - 1) * DAY_MS

\* cutoff.setDate(cutoff.getDate() - n): n calendar days back, same time of day
SetDateBack(ts, n) == ts - n * DAY_MS

\* ── Strings ──
\* A string the program searches or collates is a sequence of characters.

ToLowerCase(str) ==
    [i \in 1..Len(str) |->
        CASE str[i] = "A" -> "a" [] str[i] = "B" -> "b" [] OTHER -> str[i]]

\* String.prototype.includes
Includes(str, sub) ==
    \E i \in 0..(Len(str) - Len(sub)) : SubSeq(str, i + 1, i + Len(sub)) = sub

\* collation order of the characters; a letter and its capital share a rank
CharRank(c) ==
    CASE c = "/" -> 1
      [] c = "a" -> 2 [] c = "A" -> 2
      [] c = "b" -> 3 [] c = "B" -> 3
      [] c = "x" -> 4
      [] c = "y" -> 5

IsUpper(c) == c \in {"A", "B"}

RECURSIVE CompareRanks(_, _, _)
\* lexicographic comparison from position i on, by CharRank: -1, 0 or 1
CompareRanks(a, b, i) ==
    IF i > Len(a) /\ i > Len(b) THEN 0
    ELSE IF i > Len(a) THEN -1
    ELSE IF i > Len(b) THEN 1
    ELSE IF CharRank(a[i]) < CharRank(b[i]) THEN -1
    ELSE IF CharRank(a[i]) > CharRank(b[i]) THEN 1
    ELSE CompareRanks(a, b, i + 1)

RECURSIVE CompareCase(_, _, _)
\* tie-break of strings equal by rank: at the first difference lower case first
CompareCase(a, b, i) ==
    IF i > Len(a) THEN 0
    ELSE IF a[i] = b[i] THEN CompareCase(a, b, i + 1)
    ELSE IF IsUpper(b[i]) THEN -1 ELSE 1

\* String.prototype.localeCompare: negative, zero or positive
LocaleCompare(a, b) ==
    IF CompareRanks(a, b, 1) # 0 THEN CompareRanks(a, b, 1) ELSE CompareCase(a, b, 1)

\* ── Types ──

\* null of a string-typed field (tested by truthiness in store.ts, as is "")
NoString == <<>>
\* null of takenAt (tested by truthiness)
NoDate == 0
\* null of FilterState.selectedYear (tested by truthiness, as is 0)
NoYear == 0
\* null of FilterState.selectedMonth (tested with !== null)
NoMonth == -1
\* null of activeSource (tested by truthiness, as is '')
NoSource == ""

\* interface Photo (store.ts:8-33), the fields the engine reads
PhotoRecord(id, filename, folderRel, takenAt, modifiedAt, sizeBytes, mediaType, source, isFavorite) ==
    [id |-> id,
     path |-> <<"/">> \o folderRel \o <<"/">> \o filename,
     filename |-> filename,
     folderRel |-> folderRel,
     takenAt |-> takenAt,
     modifiedAt |-> modifiedAt,
     sizeBytes |-> sizeBytes,
     mediaType |-> mediaType,
     source |-> source,
     isFavorite |-> isFavorite]

\* The record the repository holds for the i-th photo of a large table.
Photo(i) ==
    PhotoRecord(i, <<"a">>, <<"x">>, NoDate, 150, 1,
                IF i % 7 = 0 THEN "video" ELSE "photo", "s1", FALSE)

\* A small library whose records differ in every field the Filter Pipeline and the
\* Grouping Engine read: dated 14 Feb 2024, 13 Feb 2024 (afternoon, by modifiedAt
\* only), 4 Feb 2024 (by takenAt, modified later), 15 Jan 2024 and 11 Dec 2023.
Library ==
    <<PhotoRecord(1, <<"a">>, <<"x">>, 150, 150, 2, "photo", "s1", TRUE),
      PhotoRecord(2, <<"A">>, <<"x">>, NoDate, 147, 2, "video", "s1", FALSE),
      PhotoRecord(3, <<"b">>, <<"y">>, 130, 150, 1, "photo", "s2", FALSE),
      PhotoRecord(4, <<"a", "b">>, <<"y">>, 90, 90, 3, "video", "s2", TRUE),
      PhotoRecord(5, <<"b">>, <<"x">>, 20, 20, 1, "photo", "s1", FALSE)>>

MakeDataset(n) == [i \in 1..n |-> Photo(i)]

Ids(list) == {list[i].id : i \in 1..Len(list)}

\* the set of records of a sequence
Records(list) == {list[i] : i \in 1..Len(list)}

\* ── Photo Repository (backend commands reached through invoke) ──

\* get_all_photos { limit, offset }: the slice [offset, offset+limit) of the table
GetAllPhotos(limit, offset) ==
    SubSeq(dataset, offset + 1, Min(offset + limit, Len(dataset)))

\* get_album_photos { albumId }: album 1 holds the first three photos of the
\* table, album 2 its first MAX_PHOTOS_IN_MEMORY + 1 photos
GetAlbumPhotos(albumId) ==
    IF albumId = 1
    THEN SubSeq(dataset, 1, Min(3, Len(dataset)))
    ELSE SubSeq(dataset, 1, Min(MAX_PHOTOS_IN_MEMORY + 1, Len(dataset)))

\* search_photos { query: "#tag" }: the photos carrying the tag (every 50th)
SearchPhotos(tagName) ==
    SelectSeq(dataset, LAMBDA p : p.id % 50 = 0)

\* toggle_favorite { photoId }: flips the flag of the row; the command returns the
\* new flag
ToggleFavoriteInRepo(table, photoId) ==
    [i \in 1..Len(table) |->
        IF table[i].id = photoId
        THEN [table[i] EXCEPT !.isFavorite = ~@]
        ELSE table[i]]

\* soft_delete_photos / hard_delete_photos { photoIds }: the rows leave the table
\* that get_all_photos reads
DeleteInRepo(table, photoIds) == SelectSeq(table, LAMBDA p : p.id \notin photoIds)

\* the path rename_photo returns: the file keeps its folder
RenamedPath(p, newFilename) == <<"/">> \o p.folderRel \o <<"/">> \o newFilename

\* rename_photo { photoId, newFilename }
RenameInRepo(table, photoId, newFilename) ==
    [i \in 1..Len(table) |->
        IF table[i].id = photoId
        THEN [table[i] EXCEPT !.filename = newFilename,
                              !.path = RenamedPath(table[i], newFilename)]
        ELSE table[i]]

\* ── Async bookkeeping ──

\* a suspended call: the async function, the command it awaits, and the arguments
\* the command was invoked with (offset / albumId / tagName; 0 or "" when unused)
Task(fn, awaiting, offset, albumId, tagName) ==
    [offset |-> offset, albumId |-> albumId, tagName |-> tagName, photoIds |-> {},
     newFilename |-> <<>>, fn |-> fn, awaiting |-> awaiting]

\* a suspended call of a function that changes photos in the repository: the
\* ids it was invoked with (one id for toggleFavorite and renamePhoto)
MutationTask(fn, awaiting, photoIds, newFilename) ==
    [Task(fn, awaiting, 0, 0, "") EXCEPT !.photoIds = photoIds,
                                         !.newFilename = newFilename]

InFlight == BagToSet(tasks)

Suspend(t) == tasks (+) SetToBag({t})
Resume(t) == tasks (-) SetToBag({t})

\* number of calls in flight that satisfy Is
NumInFlight(Is(_)) ==
    LET RECURSIVE Sum(_)
        Sum(S) == IF S = {} THEN 0
                  ELSE LET t == CHOOSE x \in S : TRUE
                       IN CopiesIn(t, tasks) + Sum(S \ {t})
    IN Sum({t \in InFlight : Is(t)})

IsPageFetch(t) == t.awaiting = "get_all_photos"
IsLoadMoreFetch(t) == t.fn = "loadMorePhotos" /\ t.awaiting = "get_all_photos"

CanSuspend == BagCardinality(tasks) < MaxInFlight
CanFail == failures < MaxFailures

\* ── Library cache ──

\* AppendPage with the window cut from the wrong end: slice(0, MAX_PHOTOS_IN_MEMORY)
AppendPageKeepHead(list, nextPage) ==
    LET combined == list \o nextPage
    IN IF Len(combined) > MAX_PHOTOS_IN_MEMORY
       THEN SubSeq(combined, 1, MAX_PHOTOS_IN_MEMORY)
       ELSE combined

\* store.ts:553-562: the updater passed to photos.update in loadMorePhotos
AppendPage(list, nextPage) ==
    LET combined == list \o nextPage
    IN IF Len(combined) > MAX_PHOTOS_IN_MEMORY
       THEN SubSeq(combined, Len(combined) - MAX_PHOTOS_IN_MEMORY + 1, Len(combined))
       ELSE combined

\* HasMoreAfter with the comparison off by one: page.length > PAGE_SIZE
HasMoreAfterStrict(page) == Len(page) > PAGE_SIZE

\* store.ts:524 / 563: hasMorePhotos.set(page.length >= PAGE_SIZE)
HasMoreAfter(page) == Len(page) >= PAGE_SIZE

\* LoadMoreGuard without the isLoadingMore test
LoadMoreGuardNoLoadingTest == ~hasMorePhotos

\* LoadMoreGuard with && in place of ||
LoadMoreGuardBoth == isLoadingMore /\ ~hasMorePhotos

\* store.ts:543: the guard of loadMorePhotos
LoadMoreGuard == isLoadingMore \/ ~hasMorePhotos

\* CurrentCount taken as a 1-based position
CurrentCountOneBased == Len(photos) + 1

\* store.ts:546: const currentCount = get(photos).length
CurrentCount == Len(photos)

\* ── Filter Pipeline (store.ts:220-303, the derived store filteredPhotos) ──

\* new Date(p.takenAt || p.modifiedAt)
EffectiveDate(p) == IF p.takenAt # NoDate THEN p.takenAt ELSE p.modifiedAt

\* store.ts:226-228: source-based filtering
SourceFilter(list, section, source) ==
    IF section = "source" /\ source # NoSource
    THEN SelectSeq(list, LAMBDA p : p.source = source)
    ELSE list

\* SectionFilter with the 30-day cutoff in the final else branch, so that it is
\* applied in every section besides favorites and videos
SectionFilterCutoffElse(list, section, clock) ==
    IF section = "favorites" THEN SelectSeq(list, LAMBDA p : p.isFavorite)
    ELSE IF section = "videos" THEN SelectSeq(list, LAMBDA p : p.mediaType = "video")
    ELSE LET cutoff == SetDateBack(clock, 30)
         IN SelectSeq(list, LAMBDA p : EffectiveDate(p) >= cutoff)

\* store.ts:231-243: section-based filtering
SectionFilter(list, section, clock) ==
    IF section = "favorites" THEN SelectSeq(list, LAMBDA p : p.isFavorite)
    ELSE IF section = "videos" THEN SelectSeq(list, LAMBDA p : p.mediaType = "video")
    ELSE IF section = "recents"
    THEN LET cutoff == SetDateBack(clock, 30)
         IN SelectSeq(list, LAMBDA p : EffectiveDate(p) >= cutoff)
    ELSE list

\* SearchFilter returning the lowercased copies it compared instead of the records
SearchFilterLowercases(list, searchText) ==
    IF searchText # NoString
    THEN LET query == ToLowerCase(searchText)
             matching == SelectSeq(list, LAMBDA p :
                \/ Includes(ToLowerCase(p.filename), query)
                \/ Includes(ToLowerCase(p.path), query)
                \/ Includes(ToLowerCase(p.folderRel), query))
         IN [i \in 1..Len(matching) |->
                [matching[i] EXCEPT !.filename = ToLowerCase(@)]]
    ELSE list

\* store.ts:246-253: search filter
SearchFilter(list, searchText) ==
    IF searchText # NoString
    THEN LET query == ToLowerCase(searchText)
         IN SelectSeq(list, LAMBDA p :
                \/ Includes(ToLowerCase(p.filename), query)
                \/ Includes(ToLowerCase(p.path), query)
                \/ Includes(ToLowerCase(p.folderRel), query))
    ELSE list

\* MediaTypeFilter applied in the videos section as well
MediaTypeFilterAlways(list, section, fs) ==
    SelectSeq(list, LAMBDA p : p.mediaType \in fs.selectedMediaTypes)

\* store.ts:256-258: media type filter
MediaTypeFilter(list, section, fs) ==
    IF section # "videos"
    THEN SelectSeq(list, LAMBDA p : p.mediaType \in fs.selectedMediaTypes)
    ELSE list

\* store.ts:261-263: folder filter
FolderFilter(list, fs) ==
    IF fs.selectedFolder # NoString
    THEN SelectSeq(list, LAMBDA p : p.folderRel = fs.selectedFolder)
    ELSE list

\* store.ts:266-271: year filter
YearFilter(list, fs) ==
    IF fs.selectedYear # NoYear
    THEN SelectSeq(list, LAMBDA p : GetFullYear(EffectiveDate(p)) = fs.selectedYear)
    ELSE list

\* MonthFilter testing selectedMonth by truthiness: month 0 (January) reads as unset
MonthFilterTruthy(list, fs) ==
    IF fs.selectedMonth # NoMonth /\ fs.selectedMonth # 0 /\ fs.selectedYear # NoYear
    THEN SelectSeq(list, LAMBDA p :
            /\ GetFullYear(EffectiveDate(p)) = fs.selectedYear
            /\ GetMonth(EffectiveDate(p)) = fs.selectedMonth)
    ELSE list

\* store.ts:274-279: month filter
MonthFilter(list, fs) ==
    IF fs.selectedMonth # NoMonth /\ fs.selectedYear # NoYear
    THEN SelectSeq(list, LAMBDA p :
            /\ GetFullYear(EffectiveDate(p)) = fs.selectedYear
            /\ GetMonth(EffectiveDate(p)) = fs.selectedMonth)
    ELSE list

\* CompareFn whose descending cases compare in ascending order
CompareFnAscendingOnly(a, b, sortKey) ==
    CASE sortKey \in {"date-desc", "date-asc"} -> EffectiveDate(a) - EffectiveDate(b)
      [] sortKey \in {"name-desc", "name-asc"} -> LocaleCompare(a.filename, b.filename)
      [] sortKey \in {"size-desc", "size-asc"} -> a.sizeBytes - b.sizeBytes
      [] OTHER -> 0

\* store.ts:282-300: the compare function passed to sort
CompareFn(a, b, sortKey) ==
    CASE sortKey = "date-desc" -> EffectiveDate(b) - EffectiveDate(a)
      [] sortKey = "date-asc" -> EffectiveDate(a) - EffectiveDate(b)
      [] sortKey = "name-asc" -> LocaleCompare(a.filename, b.filename)
      [] sortKey = "name-desc" -> LocaleCompare(b.filename, a.filename)
      [] sortKey = "size-desc" -> b.sizeBytes - a.sizeBytes
      [] sortKey = "size-asc" -> a.sizeBytes - b.sizeBytes
      [] OTHER -> 0

\* Array.prototype.sort, which is stable: x, later in the array than every element
\* of sorted, goes behind the elements that do not compare greater than it
InsertSorted(sorted, x, sortKey) ==
    LET after == {i \in 1..Len(sorted) : CompareFn(sorted[i], x, sortKey) > 0}
        k == IF after = {} THEN Len(sorted) + 1
             ELSE CHOOSE i \in after : \A j \in after : i <= j
    IN SubSeq(sorted, 1, k - 1) \o <<x>> \o SubSeq(sorted, k, Len(sorted))

RECURSIVE SortPhotos(_, _)
\* store.ts:282: [...filtered].sort(compareFn)
SortPhotos(list, sortKey) ==
    IF list = <<>> THEN <<>>
    ELSE InsertSorted(SortPhotos(SubSeq(list, 1, Len(list) - 1), sortKey),
                      list[Len(list)], sortKey)

\* store.ts:222-302: the callback of the derived store, run at the instant clock
FilterPipeline(list, fs, searchText, sortKey, section, source, clock) ==
    LET bySource == SourceFilter(list, section, source)
        bySection == SectionFilter(bySource, section, clock)
        bySearch == SearchFilter(bySection, searchText)
        byMedia == MediaTypeFilter(bySearch, section, fs)
        byFolder == FolderFilter(byMedia, fs)
        byYear == YearFilter(byFolder, fs)
        byMonth == MonthFilter(byYear, fs)
    IN SortPhotos(byMonth, sortKey)

\* store.ts:220: the value of the derived store
filteredPhotos ==
    FilterPipeline(photos, filters, searchQuery, sortBy, activeSection, activeSource, now)

\* the array the local variable `filtered` refers to when the sort is reached:
\* the cache array itself (store.ts:223) until a stage has run, the new array
\* Array.filter returned after that (store.ts:226-279)
ArrayAfterFilters(fs, searchText, section, source) ==
    IF \/ section = "source" /\ source # NoSource
       \/ section \in {"favorites", "videos", "recents"}
       \/ searchText # NoString
       \/ section # "videos"
       \/ fs.selectedFolder # NoString
       \/ fs.selectedYear # NoYear
       \/ fs.selectedMonth # NoMonth /\ fs.selectedYear # NoYear
    THEN "new"
    ELSE "cache"

\* store.ts:282: [...filtered] - Array.sort, which sorts the array it is called
\* on in place, is called on a copy of `filtered`
SortReceiver(array) == "new"

\* the content of the cache array after the callback has run: sorted when the
\* array that was sorted in place is the cache array
CacheAfterPipeline(list, fs, searchText, sortKey, section, source) ==
    IF SortReceiver(ArrayAfterFilters(fs, searchText, section, source)) = "cache"
    THEN SortPhotos(list, sortKey)
    ELSE list

\* ── Grouping Engine (store.ts:306-359, the derived store groupedPhotos) ──

\* store.ts:336-337
MonthNames ==
    <<"January", "February", "March", "April", "May", "June", "July", "August",
      "September", "October", "November", "December">>

\* String(n).padStart(2, '0')
PadStart2(n) == IF n < 10 THEN "0" \o ToString(n) ELSE ToString(n)

\* store.ts:308-312: the boundaries computed from now
Today(clock) == NewDate(GetFullYear(clock), GetMonth(clock), GetDate(clock))
Yesterday(clock) == Today(clock) - DAY_MS
ThisWeekStart(clock) == Today(clock) - GetDay(Today(clock)) * DAY_MS
ThisMonthStart(clock) == NewDate(GetFullYear(clock), GetMonth(clock), 1)

\* store.ts:318-319
PhotoDay(photo) ==
    LET date == EffectiveDate(photo)
    IN NewDate(GetFullYear(date), GetMonth(date), GetDate(date))

\* store.ts:324-341: label and dateKey of a record
Bucket(photo, clock) ==
    LET date == EffectiveDate(photo)
        photoDay == PhotoDay(photo)
    IN IF photoDay = Today(clock) THEN [label |-> "Today", dateKey |-> "today"]
       ELSE IF photoDay = Yesterday(clock)
       THEN [label |-> "Yesterday", dateKey |-> "yesterday"]
       ELSE IF photoDay >= ThisWeekStart(clock)
       THEN [label |-> "This Week", dateKey |-> "this-week"]
       ELSE IF photoDay >= ThisMonthStart(clock)
       THEN [label |-> "This Month", dateKey |-> "this-month"]
       ELSE [label |-> MonthNames[GetMonth(date) + 1] \o " " \o ToString(GetFullYear(date)),
             dateKey |-> ToString(GetFullYear(date)) \o "-" \o PadStart2(GetMonth(date))]

\* AddToGroup starting the group of a key afresh with every record of that key
AddToGroupReplace(groups, photo, clock) ==
    LET b == Bucket(photo, clock)
    IN IF \E i \in 1..Len(groups) : groups[i].dateKey = b.dateKey
       THEN [i \in 1..Len(groups) |->
                IF groups[i].dateKey = b.dateKey
                THEN [groups[i] EXCEPT !.photos = <<photo>>]
                ELSE groups[i]]
       ELSE Append(groups, [label |-> b.label, dateKey |-> b.dateKey, photos |-> <<photo>>])

\* AddToGroup putting the record at the front of its group
AddToGroupFront(groups, photo, clock) ==
    LET b == Bucket(photo, clock)
    IN IF \E i \in 1..Len(groups) : groups[i].dateKey = b.dateKey
       THEN [i \in 1..Len(groups) |->
                IF groups[i].dateKey = b.dateKey
                THEN [groups[i] EXCEPT !.photos = <<photo>> \o @]
                ELSE groups[i]]
       ELSE Append(groups, [label |-> b.label, dateKey |-> b.dateKey, photos |-> <<photo>>])

\* store.ts:343-347: groupMap keeps its keys in insertion order
AddToGroup(groups, photo, clock) ==
    LET b == Bucket(photo, clock)
    IN IF \E i \in 1..Len(groups) : groups[i].dateKey = b.dateKey
       THEN [i \in 1..Len(groups) |->
                IF groups[i].dateKey = b.dateKey
                THEN [groups[i] EXCEPT !.photos = Append(@, photo)]
                ELSE groups[i]]
       ELSE Append(groups, [label |-> b.label, dateKey |-> b.dateKey, photos |-> <<photo>>])

RECURSIVE GroupPhotos(_, _)
\* store.ts:317-356: the loop over $filtered, then the loop over groupMap
GroupPhotos(filtered, clock) ==
    IF filtered = <<>> THEN <<>>
    ELSE AddToGroup(GroupPhotos(SubSeq(filtered, 1, Len(filtered) - 1), clock),
                    filtered[Len(filtered)], clock)

\* store.ts:306: the value of the derived store
groupedPhotos == GroupPhotos(filteredPhotos, now)

\* ── Init ──

\* ── Settings (store.ts:56-97, 146-176) and the folder list (store.ts:371-395) ──

\* store.ts:56-67: the keys of AppSettings in the order defaultSettings lists them
SettingsKeys ==
    <<"theme", "layoutMode", "filmstripScrollEnabled", "gridZoom", "showSidebar",
      "accentColor", "colorPalette", "hiddenFolders", "pinnedFolders",
      "maxVisibleFolders">>

\* store.ts:80-91
defaultSettings ==
    [theme |-> "light",
     layoutMode |-> "default",
     filmstripScrollEnabled |-> TRUE,
     gridZoom |-> 3,
     showSidebar |-> TRUE,
     accentColor |-> "blue",
     colorPalette |-> "default",
     hiddenFolders |-> <<>>,
     pinnedFolders |-> <<>>,
     maxVisibleFolders |-> 8]

\* the keys of an object in the order JSON.stringify writes them: the known
\* keys it has, in the order of SettingsKeys
KeysOf(obj) == SelectSeq(SettingsKeys, LAMBDA k : k \in DOMAIN obj)

\* JSON.stringify of a settings object: its text is the sequence of its
\* key/value members
JSONStringify(obj) == [i \in 1..Len(KeysOf(obj)) |-> <<KeysOf(obj)[i], obj[KeysOf(obj)[i]]>>]

\* JSON.parse of such a text: an object with the keys the text names, a key
\* named twice taking its last value
JSONParse(text) ==
    [k \in {text[i][1] : i \in 1..Len(text)} |->
        text[CHOOSE i \in 1..Len(text) :
                 /\ text[i][1] = k
                 /\ \A j \in (i + 1)..Len(text) : text[j][1] # k][2]]

\* { ...obj, ...over } with the keys of obj losing to those of over
SpreadUnderWins(obj, over) ==
    [k \in DOMAIN obj \cup DOMAIN over |-> IF k \in DOMAIN obj THEN obj[k] ELSE over[k]]

\* store.ts:75 / 168-171 / 175: { ...obj, ...over }
Spread(obj, over) ==
    [k \in DOMAIN obj \cup DOMAIN over |-> IF k \in DOMAIN over THEN over[k] ELSE obj[k]]

\* What localStorage holds under 'photo-sorter-settings': nothing, a text that
\* parses as JSON, a text that does not, or a storage that throws on every access.
NoItem == [kind |-> "null", text |-> <<>>]
TextItem(text) == [kind |-> "text", text |-> text]
GarbageItem == [kind |-> "garbage", text |-> <<>>]
DeniedStorage == [kind |-> "denied", text |-> <<>>]

\* store.ts:72-78
loadSettings(item) ==
    IF item.kind = "text" THEN Spread(defaultSettings, JSONParse(item.text))
    ELSE defaultSettings

\* store.ts:93-97: the item after saveSettings(s)
saveSettings(item, s) ==
    IF item.kind = "denied" THEN item ELSE TextItem(JSONStringify(s))

\* Array.prototype.includes over an array of folder names
InArray(array, f) == \E i \in 1..Len(array) : array[i] = f

\* UTF-16 code units, which Array.prototype.sort() without a comparator orders by
CodeUnit(c) ==
    CASE c = "/" -> 47
      [] c = "A" -> 65 [] c = "B" -> 66
      [] c = "a" -> 97 [] c = "b" -> 98
      [] c = "x" -> 120
      [] c = "y" -> 121

RECURSIVE CodeUnitLess(_, _, _)
\* a sorts before b by code units, compared from position i on
CodeUnitLess(a, b, i) ==
    IF i > Len(b) THEN FALSE
    ELSE IF i > Len(a) THEN TRUE
    ELSE IF CodeUnit(a[i]) # CodeUnit(b[i]) THEN CodeUnit(a[i]) < CodeUnit(b[i])
    ELSE CodeUnitLess(a, b, i + 1)

RECURSIVE FoldersOf(_, _)
\* store.ts:372-375: the Set of the non-empty folderRel values, in insertion order
FoldersOf(list, seen) ==
    IF list = <<>> THEN seen
    ELSE IF Head(list).folderRel # NoString /\ ~InArray(seen, Head(list).folderRel)
    THEN FoldersOf(Tail(list), Append(seen, Head(list).folderRel))
    ELSE FoldersOf(Tail(list), seen)

RECURSIVE SortFolders(_)
\* store.ts:376: Array.from(foldersSet).sort()
SortFolders(list) ==
    IF list = <<>> THEN <<>>
    ELSE LET rest == SortFolders(Tail(list))
             before == SelectSeq(rest, LAMBDA f : CodeUnitLess(f, Head(list), 1))
             after == SelectSeq(rest, LAMBDA f : ~CodeUnitLess(f, Head(list), 1))
         IN before \o <<Head(list)>> \o after

\* store.ts:371-377
folders == SortFolders(FoldersOf(photos, <<>>))

\* the comparator of visibleFolders without the pinned test
CompareVisibleNoPin(a, b, pinned) == LocaleCompare(a, b)

\* store.ts:387-392: pinned first, then localeCompare
CompareVisible(a, b, pinned) ==
    LET aPinned == IF InArray(pinned, a) THEN 0 ELSE 1
        bPinned == IF InArray(pinned, b) THEN 0 ELSE 1
    IN IF aPinned # bPinned THEN aPinned - bPinned ELSE LocaleCompare(a, b)

\* one step of the stable sort: x goes after the last element not greater than it
InsertFolder(sorted, x, pinned) ==
    LET after == {i \in 1..Len(sorted) : CompareVisible(sorted[i], x, pinned) > 0}
        at == IF after = {} THEN Len(sorted) + 1
              ELSE CHOOSE i \in after : \A j \in after : i <= j
    IN SubSeq(sorted, 1, at - 1) \o <<x>> \o SubSeq(sorted, at, Len(sorted))

RECURSIVE SortVisible(_, _)
\* store.ts:387: visible.sort(comparator), a stable sort
SortVisible(list, pinned) ==
    IF list = <<>> THEN <<>>
    ELSE InsertFolder(SortVisible(SubSeq(list, 1, Len(list) - 1), pinned),
                      list[Len(list)], pinned)

\* Array.prototype.slice(0, end) for end >= 0
Slice0(array, end) == SubSeq(array, 1, Min(end, Len(array)))

\* store.ts:380-395
VisibleFolders(allFolders, settings) ==
    LET visible == SelectSeq(allFolders, LAMBDA f : ~InArray(settings.hiddenFolders, f))
    IN Slice0(SortVisible(visible, settings.pinnedFolders), settings.maxVisibleFolders)

visibleFolders == VisibleFolders(folders, appSettings)

\* new Date() at the start of a run: the morning of Wednesday 14 Feb 2024
Morning == 150
\* the clock readings of the runs that read the clock: the morning of Tuesday
\* 6 Feb 2024, and 14 Feb 2024 in the morning and in the afternoon
Clock == {Morning - 8 * DAY_MS, Morning, Morning + 1}

\* store.ts:211-216: the initial FilterState
DefaultFilters ==
    [selectedFolder |-> NoString,
     selectedYear |-> NoYear,
     selectedMonth |-> NoMonth,
     selectedMediaTypes |-> {"photo", "video"}]

\* store.ts:101-102, 146-147, 179, 486: the settings loaded from an empty storage
\* and saved by the first run of the subscriber, no timer, no library chosen
InitShell ==
    /\ appSettings = loadSettings(NoItem)
    /\ localStorage = saveSettings(NoItem, loadSettings(NoItem))
    /\ searchTimer = <<>>
    /\ timers = {}
    /\ libraryPath = <<>>
    /\ isIndexing = FALSE
    /\ dialog = <<>>

\* store.ts:181, 200, 201, 207, 211: the stores the Filter Pipeline reads
InitView ==
    /\ filters = DefaultFilters
    /\ searchQuery = NoString
    /\ sortBy = "date-desc"
    /\ activeSection = "all"
    /\ activeSource = NoSource
    /\ now = Morning
    /\ uiEvents = 0
    /\ InitShell

\* store.ts:182, 619, 620
InitSelection ==
    /\ selectedPhoto = <<>>
    /\ selectedPhotoIds = {}
    /\ isMultiSelectMode = FALSE

InitWith(sizes) ==
    /\ dataset \in {MakeDataset(n) : n \in sizes}
    /\ photos = <<>>
    /\ hasMorePhotos = TRUE
    /\ isLoadingMore = FALSE
    /\ tasks = EmptyBag
    /\ console = ""
    /\ failures = 0
    /\ earlyReturns = 0
    /\ InitView
    /\ InitSelection

Init == InitWith(DatasetSizes)

\* ── loadAllPhotos (store.ts:518-540) ──

\* entry up to the first await (called by initAutoScan, indexLibrary, restorePhotos)
LoadAllPhotos ==
    /\ CanSuspend
    /\ tasks' = Suspend(Task("loadAllPhotos", "get_all_photos", 0, 0, ""))
    /\ UNCHANGED <<dataset, photos, hasMorePhotos, isLoadingMore, console, failures,
                   earlyReturns,
                   viewVars, selVars, shellVars>>

\* LoadAllPhotosPage appending the first page to the cache instead of replacing it
LoadAllPhotosPageAppends(t) ==
    /\ t.fn = "loadAllPhotos" /\ t.awaiting = "get_all_photos"
    /\ LET firstPage == GetAllPhotos(PAGE_SIZE, t.offset)
       IN /\ photos' = AppendPage(photos, firstPage)
          /\ hasMorePhotos' = HasMoreAfter(firstPage)
    /\ tasks' = Resume(t)
    /\ UNCHANGED <<dataset, isLoadingMore, console, failures, earlyReturns,
                   viewVars, selVars, shellVars>>

\* get_all_photos resolved: lines 523-524.  Lines 526-536 then refresh
\* totalPhotoCount and sourceDirectories, two stores outside this model, each
\* inside its own try/catch: neither outcome reaches the state modelled here.
LoadAllPhotosPage(t) ==
    /\ t.fn = "loadAllPhotos" /\ t.awaiting = "get_all_photos"
    /\ LET firstPage == GetAllPhotos(PAGE_SIZE, t.offset)
       IN /\ photos' = firstPage
          /\ hasMorePhotos' = HasMoreAfter(firstPage)
    /\ tasks' = Resume(t)
    /\ UNCHANGED <<dataset, isLoadingMore, console, failures, earlyReturns,
                   viewVars, selVars, shellVars>>

\* get_all_photos rejected: the outer catch, lines 537-539
LoadAllPhotosFailed(t) ==
    /\ t.fn = "loadAllPhotos" /\ t.awaiting = "get_all_photos"
    /\ CanFail
    /\ failures' = failures + 1
    /\ console' = "Failed to load photos:"
    /\ tasks' = Resume(t)
    /\ UNCHANGED <<dataset, photos, hasMorePhotos, isLoadingMore, earlyReturns,
                   viewVars, selVars, shellVars>>

\* ── loadMorePhotos (store.ts:542-570) ──

\* entry up to the await: guard (543), flag (544), offset (546), invoke (547)
LoadMorePhotos ==
    IF LoadMoreGuard
    THEN /\ earlyReturns < MaxEarlyReturns
         /\ earlyReturns' = earlyReturns + 1
         /\ UNCHANGED <<dataset, photos, hasMorePhotos, isLoadingMore, tasks, console,
                        failures,
                   viewVars, selVars, shellVars>>
    ELSE /\ CanSuspend
         /\ isLoadingMore' = TRUE
         /\ tasks' = Suspend(Task("loadMorePhotos", "get_all_photos", CurrentCount, 0, ""))
         /\ UNCHANGED <<dataset, photos, hasMorePhotos, console, failures, earlyReturns,
                   viewVars, selVars, shellVars>>

\* LoadMorePhotosPage dropping the page when the cache is no longer the one the
\* offset was computed from
LoadMorePhotosPageIfCurrent(t) ==
    /\ t.fn = "loadMorePhotos" /\ t.awaiting = "get_all_photos"
    /\ LET nextPage == GetAllPhotos(PAGE_SIZE, t.offset)
       IN IF Len(nextPage) = 0
          THEN /\ hasMorePhotos' = FALSE
               /\ UNCHANGED photos
          ELSE IF Len(photos) # t.offset
          THEN UNCHANGED <<photos, hasMorePhotos>>
          ELSE /\ photos' = AppendPage(photos, nextPage)
               /\ hasMorePhotos' = HasMoreAfter(nextPage)
    /\ isLoadingMore' = FALSE
    /\ tasks' = Resume(t)
    /\ UNCHANGED <<dataset, console, failures, earlyReturns, viewVars, selVars, shellVars>>

\* LoadMorePhotosPage dropping from the selection the ids that are no longer cached
LoadMorePhotosPagePrunes(t) ==
    /\ t.fn = "loadMorePhotos" /\ t.awaiting = "get_all_photos"
    /\ LET nextPage == GetAllPhotos(PAGE_SIZE, t.offset)
       IN IF Len(nextPage) = 0
          THEN /\ hasMorePhotos' = FALSE
               /\ UNCHANGED photos
          ELSE /\ photos' = AppendPage(photos, nextPage)
               /\ hasMorePhotos' = HasMoreAfter(nextPage)
    /\ selectedPhotoIds' = {id \in selectedPhotoIds :
                                \E i \in 1..Len(photos') : photos'[i].id = id}
    /\ isLoadingMore' = FALSE
    /\ tasks' = Resume(t)
    /\ UNCHANGED <<dataset, console, failures, earlyReturns, viewVars, selectedPhoto,
                   isMultiSelectMode, shellVars>>

\* get_all_photos resolved: lines 550-564, then the finally block (568)
LoadMorePhotosPage(t) ==
    /\ t.fn = "loadMorePhotos" /\ t.awaiting = "get_all_photos"
    /\ LET nextPage == GetAllPhotos(PAGE_SIZE, t.offset)
       IN IF Len(nextPage) = 0
          THEN /\ hasMorePhotos' = FALSE
               /\ UNCHANGED photos
          ELSE /\ photos' = AppendPage(photos, nextPage)
               /\ hasMorePhotos' = HasMoreAfter(nextPage)
    /\ isLoadingMore' = FALSE
    /\ tasks' = Resume(t)
    /\ UNCHANGED <<dataset, console, failures, earlyReturns,
                   viewVars, selVars, shellVars>>

\* LoadMorePhotosFailed without the finally block: the flag is never reset
LoadMorePhotosFailedNoFinally(t) ==
    /\ t.fn = "loadMorePhotos" /\ t.awaiting = "get_all_photos"
    /\ CanFail
    /\ failures' = failures + 1
    /\ console' = "Failed to load more photos:"
    /\ tasks' = Resume(t)
    /\ UNCHANGED <<dataset, photos, hasMorePhotos, isLoadingMore, earlyReturns,
                   viewVars, selVars, shellVars>>

\* LoadMorePhotosFailed treating a failure like an empty page: pagination stops
LoadMorePhotosFailedStops(t) ==
    /\ t.fn = "loadMorePhotos" /\ t.awaiting = "get_all_photos"
    /\ CanFail
    /\ failures' = failures + 1
    /\ console' = "Failed to load more photos:"
    /\ hasMorePhotos' = FALSE
    /\ isLoadingMore' = FALSE
    /\ tasks' = Resume(t)
    /\ UNCHANGED <<dataset, photos, earlyReturns,
                   viewVars, selVars, shellVars>>

\* get_all_photos rejected: catch (565-567), then the finally block (568)
LoadMorePhotosFailed(t) ==
    /\ t.fn = "loadMorePhotos" /\ t.awaiting = "get_all_photos"
    /\ CanFail
    /\ failures' = failures + 1
    /\ console' = "Failed to load more photos:"
    /\ isLoadingMore' = FALSE
    /\ tasks' = Resume(t)
    /\ UNCHANGED <<dataset, photos, hasMorePhotos, earlyReturns,
                   viewVars, selVars, shellVars>>

\* PhotoGrid.svelte:151-165: the sentinel's IntersectionObserver callback.
\* PhotoGrid (and with it the sentinel) is mounted only while photos is non-empty
\* (App.svelte:95-98) and hasMorePhotos is true (PhotoGrid.svelte:315).
SentinelIntersecting ==
    /\ Len(photos) > 0
    /\ hasMorePhotos /\ ~isLoadingMore
    /\ LoadMorePhotos

\* ── loadAlbumPhotos (store.ts:780-789) / loadTagPhotos (store.ts:791-799) ──

LoadAlbumPhotos(albumId) ==
    /\ CanSuspend
    /\ tasks' = Suspend(Task("loadAlbumPhotos", "get_album_photos", 0, albumId, ""))
    /\ UNCHANGED <<dataset, photos, hasMorePhotos, isLoadingMore, console, failures,
                   earlyReturns,
                   viewVars, selVars, shellVars>>

LoadAlbumPhotosResult(t) ==
    /\ t.fn = "loadAlbumPhotos"
    /\ photos' = GetAlbumPhotos(t.albumId)
    /\ tasks' = Resume(t)
    /\ UNCHANGED <<dataset, hasMorePhotos, isLoadingMore, console, failures, earlyReturns,
                   viewVars, selVars, shellVars>>

LoadAlbumPhotosFailed(t) ==
    /\ t.fn = "loadAlbumPhotos"
    /\ CanFail
    /\ failures' = failures + 1
    /\ console' = "Failed to load album photos:"
    /\ tasks' = Resume(t)
    /\ UNCHANGED <<dataset, photos, hasMorePhotos, isLoadingMore, earlyReturns,
                   viewVars, selVars, shellVars>>

LoadTagPhotos(tagName) ==
    /\ CanSuspend
    /\ tasks' = Suspend(Task("loadTagPhotos", "search_photos", 0, 0, tagName))
    /\ UNCHANGED <<dataset, photos, hasMorePhotos, isLoadingMore, console, failures,
                   earlyReturns,
                   viewVars, selVars, shellVars>>

LoadTagPhotosResult(t) ==
    /\ t.fn = "loadTagPhotos"
    /\ photos' = SearchPhotos(t.tagName)
    /\ tasks' = Resume(t)
    /\ UNCHANGED <<dataset, hasMorePhotos, isLoadingMore, console, failures, earlyReturns,
                   viewVars, selVars, shellVars>>

LoadTagPhotosFailed(t) ==
    /\ t.fn = "loadTagPhotos"
    /\ CanFail
    /\ failures' = failures + 1
    /\ console' = "Failed to load tag photos:"
    /\ tasks' = Resume(t)
    /\ UNCHANGED <<dataset, photos, hasMorePhotos, isLoadingMore, earlyReturns,
                   viewVars, selVars, shellVars>>

\* ── Specification: every interleaving of the pagination engine ──

Next ==
    \/ LoadAllPhotos
    \/ \E t \in InFlight : LoadAllPhotosPage(t)
    \/ \E t \in InFlight : LoadAllPhotosFailed(t)
    \/ LoadMorePhotos
    \/ SentinelIntersecting
    \/ \E t \in InFlight : LoadMorePhotosPage(t)
    \/ \E t \in InFlight : LoadMorePhotosFailed(t)
    \/ \E a \in AlbumIds : LoadAlbumPhotos(a)
    \/ \E t \in InFlight : LoadAlbumPhotosResult(t)
    \/ \E t \in InFlight : LoadAlbumPhotosFailed(t)
    \/ \E n \in TagNames : LoadTagPhotos(n)
    \/ \E t \in InFlight : LoadTagPhotosResult(t)
    \/ \E t \in InFlight : LoadTagPhotosFailed(t)

Spec == Init /\ [][Next]_vars

\* the repository call a function is suspended on completes (resolves or rejects)
LoadAllPhotosCompletes ==
    \E t \in InFlight : LoadAllPhotosPage(t) \/ LoadAllPhotosFailed(t)
LoadMorePhotosCompletes ==
    \E t \in InFlight : LoadMorePhotosPage(t) \/ LoadMorePhotosFailed(t)
LoadAlbumPhotosCompletes ==
    \E t \in InFlight : LoadAlbumPhotosResult(t) \/ LoadAlbumPhotosFailed(t)
LoadTagPhotosCompletes ==
    \E t \in InFlight : LoadTagPhotosResult(t) \/ LoadTagPhotosFailed(t)

\* the same interleavings, where every repository call eventually completes
FairSpec ==
    /\ Spec
    /\ WF_vars(LoadAllPhotosCompletes)
    /\ WF_vars(LoadMorePhotosCompletes)
    /\ WF_vars(LoadAlbumPhotosCompletes)
    /\ WF_vars(LoadTagPhotosCompletes)

\* ── Specification: one call at a time, on a dataset larger than the cache ──

Idle == tasks = EmptyBag

WindowInit == InitWith(WindowDatasetSizes)

WindowNext ==
    \/ Idle /\ LoadAllPhotos
    \/ \E t \in InFlight : LoadAllPhotosPage(t)
    \/ Idle /\ LoadMorePhotos
    \/ \E t \in InFlight : LoadMorePhotosPage(t)
    \/ Idle /\ \E a \in WindowAlbumIds : LoadAlbumPhotos(a)
    \/ \E t \in InFlight : LoadAlbumPhotosResult(t)
    \/ Idle /\ \E n \in TagNames : LoadTagPhotos(n)
    \/ \E t \in InFlight : LoadTagPhotosResult(t)

WindowSpec == WindowInit /\ [][WindowNext]_vars

\* ── Specification: strictly sequential pagination (scenarios A and D) ──
\* loadAllPhotos has been called once (initAutoScan); afterwards loadMorePhotos is
\* triggered again and again, every repository call succeeds.

SeqInit ==
    /\ dataset \in {MakeDataset(n) : n \in SeqDatasetSizes}
    /\ photos = <<>>
    /\ hasMorePhotos = TRUE
    /\ isLoadingMore = FALSE
    /\ tasks = SetToBag({Task("loadAllPhotos", "get_all_photos", 0, 0, "")})
    /\ console = ""
    /\ failures = 0
    /\ earlyReturns = 0
    /\ InitView
    /\ InitSelection

SeqNext ==
    \/ \E t \in InFlight : LoadAllPhotosPage(t)
    \/ Idle /\ LoadMorePhotos
    \/ \E t \in InFlight : LoadMorePhotosPage(t)

SeqSpec == SeqInit /\ [][SeqNext]_vars

\* the same runs, where the trigger keeps coming and every repository call completes
FairSeqSpec == SeqSpec /\ WF_vars(SeqNext)

\* ── Specification: the Filter Pipeline and the Grouping Engine ──
\* The cache holds a few records of Library in any order; the user changes the
\* inputs of the pipeline one at a time while the clock advances.

\* the orderings of at most MaxCacheLen records of Library
Caches ==
    LET picks == UNION {[1..n -> 1..Len(Library)] : n \in 0..MaxCacheLen}
    IN {[i \in DOMAIN f |-> Library[f[i]]] :
          f \in {g \in picks : \A i, j \in DOMAIN g : i # j => g[i] # g[j]}}

\* type SidebarSection (store.ts:53)
Sections == {"all", "recents", "favorites", "videos", "source", "trash", "album", "tag"}
\* type SortBy (store.ts:52)
SortKeys == {"date-desc", "date-asc", "name-asc", "name-desc", "size-desc", "size-asc"}
\* the values the user gives the other inputs
SearchTexts == {NoString, <<"A">>}
Sources == {NoSource, "s1"}
Folders == {NoString, <<"x">>}
Years == {NoYear, 2024}
Months == {NoMonth, 0, 1}
MediaTypeSets == {{"photo", "video"}, {"photo"}}

CanChange == uiEvents < MaxUiEvents

FilterInit ==
    /\ dataset = Library
    /\ photos \in Caches
    /\ hasMorePhotos = FALSE
    /\ isLoadingMore = FALSE
    /\ tasks = EmptyBag
    /\ console = ""
    /\ failures = 0
    /\ earlyReturns = 0
    /\ filters = DefaultFilters
    /\ searchQuery = NoString
    /\ sortBy = "date-desc"
    /\ activeSection = "all"
    /\ activeSource = NoSource
    /\ now = Morning - 8 * DAY_MS
    /\ uiEvents = 0
    /\ InitShell
    /\ InitSelection

pagingVars == <<dataset, photos, hasMorePhotos, isLoadingMore, tasks, console, failures,
                earlyReturns>>

\* Thumbnail.svelte:204-206
SetSection(section) ==
    /\ CanChange
    /\ activeSection' = section
    /\ uiEvents' = uiEvents + 1
    /\ UNCHANGED <<pagingVars, selVars, filters, searchQuery, sortBy, activeSource, now,
                   shellVars>>

\* store.ts:481-483
SearchPhotosNow(query) ==
    /\ CanChange
    /\ searchQuery' = query
    /\ uiEvents' = uiEvents + 1
    /\ UNCHANGED <<pagingVars, selVars, filters, sortBy, activeSection, activeSource, now,
                   shellVars>>

\* sortBy.set (store.ts:200)
SetSortBy(sortKey) ==
    /\ CanChange
    /\ sortBy' = sortKey
    /\ uiEvents' = uiEvents + 1
    /\ UNCHANGED <<pagingVars, selVars, filters, searchQuery, activeSection, activeSource,
                   now, shellVars>>

\* activeSource.set (store.ts:207)
SetActiveSource(source) ==
    /\ CanChange
    /\ activeSource' = source
    /\ uiEvents' = uiEvents + 1
    /\ UNCHANGED <<pagingVars, selVars, filters, searchQuery, sortBy, activeSection, now,
                   shellVars>>

\* filters.update (store.ts:211): one field of the FilterState is given a value
SetFilter(field, value) ==
    /\ CanChange
    /\ filters' = [filters EXCEPT ![field] = value]
    /\ uiEvents' = uiEvents + 1
    /\ UNCHANGED <<pagingVars, selVars, searchQuery, sortBy, activeSection, activeSource,
                   now, shellVars>>

\* time passes
Tick ==
    /\ \E t \in Clock : t > now /\ now' = t
    /\ UNCHANGED <<pagingVars, selVars, filters, searchQuery, sortBy, activeSection,
                   activeSource, uiEvents, shellVars>>

FilterNext ==
    \/ \E section \in Sections : SetSection(section)
    \/ \E query \in SearchTexts : SearchPhotosNow(query)
    \/ \E sortKey \in SortKeys : SetSortBy(sortKey)
    \/ \E source \in Sources : SetActiveSource(source)
    \/ \E folder \in Folders : SetFilter("selectedFolder", folder)
    \/ \E year \in Years : SetFilter("selectedYear", year)
    \/ \E month \in Months : SetFilter("selectedMonth", month)
    \/ \E types \in MediaTypeSets : SetFilter("selectedMediaTypes", types)
    \/ Tick

FilterSpec == FilterInit /\ [][FilterNext]_vars

\* ── Mutations (store.ts:574-602, 803-826) and selection (store.ts:619-646) ──

\* the one id a toggleFavorite or renamePhoto call was invoked with
PhotoIdOf(t) == CHOOSE id \in t.photoIds : TRUE

\* the row of the repository with the given id is there
InRepo(photoId) == photoId \in Ids(dataset)

\* SetFavorite writing the flag to every record
SetFavoriteAll(list, photoId, isFav) ==
    [i \in 1..Len(list) |-> [list[i] EXCEPT !.isFavorite = isFav]]

\* store.ts:578-580 / 583-585: p.id === photoId ? { ...p, isFavorite: isFav } : p
\* over the cache, or over selectedPhoto when it is not null
SetFavorite(list, photoId, isFav) ==
    [i \in 1..Len(list) |->
        IF list[i].id = photoId THEN [list[i] EXCEPT !.isFavorite = isFav] ELSE list[i]]

\* store.ts:818-820 / 821-823: p.id === photoId ? { ...p, filename, path } : p
SetFilename(list, photoId, newFilename, newPath) ==
    [i \in 1..Len(list) |->
        IF list[i].id = photoId
        THEN [list[i] EXCEPT !.filename = newFilename, !.path = newPath]
        ELSE list[i]]

\* RemovePhotos dropping the records of one of the ids only
RemovePhotosOfOneId(list, photoIds) ==
    SelectSeq(list, LAMBDA p : p.id # (CHOOSE id \in photoIds : TRUE))

\* store.ts:597 / 806: list.filter(p => !photoIds.includes(p.id))
RemovePhotos(list, photoIds) == SelectSeq(list, LAMBDA p : p.id \notin photoIds)

\* store.ts:598 / 807: p && photoIds.includes(p.id) ? null : p
DeselectRemoved(selected, photoIds) ==
    IF selected # <<>> /\ selected[1].id \in photoIds THEN <<>> ELSE selected

\* a mutating function is called: everything up to its await
CallMutation(t) ==
    /\ uiEvents < MaxUiEvents
    /\ CanSuspend
    /\ uiEvents' = uiEvents + 1
    /\ tasks' = Suspend(t)
    /\ UNCHANGED <<dataset, photos, hasMorePhotos, isLoadingMore, console, failures,
                   earlyReturns, selVars, filters, searchQuery, sortBy, activeSection,
                   activeSource, now, shellVars>>

\* the awaited command of a mutating function rejects: its catch block
MutationFailed(t, fn, message) ==
    /\ t.fn = fn
    /\ CanFail
    /\ failures' = failures + 1
    /\ console' = message
    /\ tasks' = Resume(t)
    /\ UNCHANGED <<dataset, photos, hasMorePhotos, isLoadingMore, earlyReturns, selVars,
                   viewVars, shellVars>>

\* ToggleFavorite flipping the flag in the cache before toggle_favorite resolves
ToggleFavoriteOptimistic(photoId) ==
    /\ uiEvents < MaxUiEvents
    /\ CanSuspend
    /\ uiEvents' = uiEvents + 1
    /\ tasks' = Suspend(MutationTask("toggleFavorite", "toggle_favorite", {photoId}, <<>>))
    /\ photos' = [i \in 1..Len(photos) |->
                     IF photos[i].id = photoId
                     THEN [photos[i] EXCEPT !.isFavorite = ~@]
                     ELSE photos[i]]
    /\ UNCHANGED <<dataset, hasMorePhotos, isLoadingMore, console, failures,
                   earlyReturns, selVars, filters, searchQuery, sortBy, activeSection,
                   activeSource, now, shellVars>>

\* store.ts:574-576: toggleFavorite up to the await
ToggleFavorite(photoId) ==
    CallMutation(MutationTask("toggleFavorite", "toggle_favorite", {photoId}, <<>>))

\* ToggleFavoriteResult without the update of selectedPhoto
ToggleFavoriteResultCacheOnly(t) ==
    /\ t.fn = "toggleFavorite"
    /\ InRepo(PhotoIdOf(t))
    /\ dataset' = ToggleFavoriteInRepo(dataset, PhotoIdOf(t))
    /\ LET isFav == \E i \in 1..Len(dataset') :
                       dataset'[i].id = PhotoIdOf(t) /\ dataset'[i].isFavorite
       IN photos' = SetFavorite(photos, PhotoIdOf(t), isFav)
    /\ tasks' = Resume(t)
    /\ UNCHANGED <<hasMorePhotos, isLoadingMore, console, failures, earlyReturns,
                   selVars, viewVars, shellVars>>

\* toggle_favorite resolved with the new flag: store.ts:577-586
ToggleFavoriteResult(t) ==
    /\ t.fn = "toggleFavorite"
    /\ InRepo(PhotoIdOf(t))
    /\ dataset' = ToggleFavoriteInRepo(dataset, PhotoIdOf(t))
    /\ LET isFav == \E i \in 1..Len(dataset') :
                       dataset'[i].id = PhotoIdOf(t) /\ dataset'[i].isFavorite
       IN /\ photos' = SetFavorite(photos, PhotoIdOf(t), isFav)
          /\ selectedPhoto' = SetFavorite(selectedPhoto, PhotoIdOf(t), isFav)
    /\ tasks' = Resume(t)
    /\ UNCHANGED <<hasMorePhotos, isLoadingMore, console, failures, earlyReturns,
                   selectedPhotoIds, isMultiSelectMode, viewVars, shellVars>>

\* toggle_favorite rejected: store.ts:587-590
ToggleFavoriteFailed(t) == MutationFailed(t, "toggleFavorite", "Failed to toggle favorite:")

\* store.ts:594-596: deletePhotos up to the await
DeletePhotos(photoIds) ==
    CallMutation(MutationTask("deletePhotos", "soft_delete_photos", photoIds, <<>>))

\* soft_delete_photos resolved: store.ts:597-598
DeletePhotosResult(t) ==
    /\ t.fn = "deletePhotos"
    /\ dataset' = DeleteInRepo(dataset, t.photoIds)
    /\ photos' = RemovePhotos(photos, t.photoIds)
    /\ selectedPhoto' = DeselectRemoved(selectedPhoto, t.photoIds)
    /\ tasks' = Resume(t)
    /\ UNCHANGED <<hasMorePhotos, isLoadingMore, console, failures, earlyReturns,
                   selectedPhotoIds, isMultiSelectMode, viewVars, shellVars>>

\* soft_delete_photos rejected: store.ts:599-601
DeletePhotosFailed(t) == MutationFailed(t, "deletePhotos", "Failed to delete photos:")

\* store.ts:803-805: hardDeletePhotos up to the await
HardDeletePhotos(photoIds) ==
    CallMutation(MutationTask("hardDeletePhotos", "hard_delete_photos", photoIds, <<>>))

\* hard_delete_photos resolved: store.ts:806-808, clearSelection (629-632) included
HardDeletePhotosResult(t) ==
    /\ t.fn = "hardDeletePhotos"
    /\ dataset' = DeleteInRepo(dataset, t.photoIds)
    /\ photos' = RemovePhotos(photos, t.photoIds)
    /\ selectedPhoto' = DeselectRemoved(selectedPhoto, t.photoIds)
    /\ selectedPhotoIds' = {}
    /\ isMultiSelectMode' = FALSE
    /\ tasks' = Resume(t)
    /\ UNCHANGED <<hasMorePhotos, isLoadingMore, console, failures, earlyReturns,
                   viewVars, shellVars>>

\* hard_delete_photos rejected: store.ts:809-811
HardDeletePhotosFailed(t) ==
    MutationFailed(t, "hardDeletePhotos", "Failed to hard delete photos:")

\* store.ts:814-816: renamePhoto up to the await
RenamePhoto(photoId, newFilename) ==
    CallMutation(MutationTask("renamePhoto", "rename_photo", {photoId}, newFilename))

\* rename_photo resolved with the new path: store.ts:817-822
RenamePhotoResult(t) ==
    /\ t.fn = "renamePhoto"
    /\ InRepo(PhotoIdOf(t))
    /\ dataset' = RenameInRepo(dataset, PhotoIdOf(t), t.newFilename)
    /\ LET newPath == (CHOOSE p \in Records(dataset') : p.id = PhotoIdOf(t)).path
       IN /\ photos' = SetFilename(photos, PhotoIdOf(t), t.newFilename, newPath)
          /\ selectedPhoto' = SetFilename(selectedPhoto, PhotoIdOf(t), t.newFilename, newPath)
    /\ tasks' = Resume(t)
    /\ UNCHANGED <<hasMorePhotos, isLoadingMore, console, failures, earlyReturns,
                   selectedPhotoIds, isMultiSelectMode, viewVars, shellVars>>

\* rename_photo rejected: store.ts:823-825
RenamePhotoFailed(t) == MutationFailed(t, "renamePhoto", "Failed to rename photo:")

\* a command invoked for a row that is no longer in the repository rejects
RowNotFound(t) ==
    /\ t.fn \in {"toggleFavorite", "renamePhoto"}
    /\ ~InRepo(PhotoIdOf(t))
    /\ failures' = failures + 1
    /\ console' = IF t.fn = "toggleFavorite" THEN "Failed to toggle favorite:"
                  ELSE "Failed to rename photo:"
    /\ tasks' = Resume(t)
    /\ UNCHANGED <<dataset, photos, hasMorePhotos, isLoadingMore, earlyReturns, selVars,
                   viewVars, shellVars>>

\* ToggleMultiSelect keeping the selection when the mode is switched off
ToggleMultiSelectKeeps ==
    /\ isMultiSelectMode' = ~isMultiSelectMode
    /\ UNCHANGED <<pagingVars, selectedPhoto, selectedPhotoIds, viewVars, shellVars>>

\* store.ts:622-627
ToggleMultiSelect ==
    /\ selectedPhotoIds' = IF isMultiSelectMode THEN {} ELSE selectedPhotoIds
    /\ isMultiSelectMode' = ~isMultiSelectMode
    /\ UNCHANGED <<pagingVars, selectedPhoto, viewVars, shellVars>>

\* ToggleId never deleting: the id is added whether or not it is there
ToggleIdAddOnly(ids, photoId) == ids \cup {photoId}

\* store.ts:636-639: next.has(photoId) ? next.delete(photoId) : next.add(photoId)
ToggleId(ids, photoId) ==
    IF photoId \in ids THEN ids \ {photoId} ELSE ids \cup {photoId}

\* store.ts:634-641
TogglePhotoSelection(photoId) ==
    /\ selectedPhotoIds' = ToggleId(selectedPhotoIds, photoId)
    /\ UNCHANGED <<pagingVars, selectedPhoto, isMultiSelectMode, viewVars, shellVars>>

\* ClearSelection leaving the mode and keeping the selected ids
ClearSelectionModeOnly ==
    /\ isMultiSelectMode' = FALSE
    /\ UNCHANGED <<pagingVars, selectedPhoto, selectedPhotoIds, viewVars, shellVars>>

\* store.ts:629-632
ClearSelection ==
    /\ selectedPhotoIds' = {}
    /\ isMultiSelectMode' = FALSE
    /\ UNCHANGED <<pagingVars, selectedPhoto, viewVars, shellVars>>

\* SelectAllPhotos taking the ids of the whole cache
SelectAllPhotosOfCache ==
    /\ selectedPhotoIds' = {photos[i].id : i \in 1..Len(photos)}
    /\ UNCHANGED <<pagingVars, selectedPhoto, isMultiSelectMode, viewVars, shellVars>>

\* store.ts:643-646: the ids of get(filteredPhotos) replace the selection
SelectAllPhotos ==
    /\ selectedPhotoIds' = {filteredPhotos[i].id : i \in 1..Len(filteredPhotos)}
    /\ UNCHANGED <<pagingVars, selectedPhoto, isMultiSelectMode, viewVars, shellVars>>

\* PhotoGrid.svelte:66-72: a thumbnail of the grid is clicked
OpenPhoto(photo) ==
    IF isMultiSelectMode
    THEN TogglePhotoSelection(photo.id)
    ELSE /\ selectedPhoto' = <<photo>>
         /\ UNCHANGED <<pagingVars, selectedPhotoIds, isMultiSelectMode, viewVars, shellVars>>

\* ── Specification: mutations of a small loaded library ──

\* the arguments the mutating functions are called with; photo 5 is in the
\* repository and not in the cache
MutatedIds == {1, 2, 5}
MutatedIdSets == {{1}, {1, 2}}
NewFilenames == {<<"y">>}

MutateInit ==
    /\ dataset = Library
    /\ photos = SubSeq(Library, 1, MaxCacheLen)
    /\ hasMorePhotos = FALSE
    /\ isLoadingMore = FALSE
    /\ tasks = EmptyBag
    /\ console = ""
    /\ failures = 0
    /\ earlyReturns = 0
    /\ InitView
    /\ InitSelection

MutateNext ==
    \/ \E id \in MutatedIds : ToggleFavorite(id)
    \/ \E t \in InFlight : ToggleFavoriteResult(t)
    \/ \E t \in InFlight : ToggleFavoriteFailed(t)
    \/ \E ids \in MutatedIdSets : DeletePhotos(ids)
    \/ \E t \in InFlight : DeletePhotosResult(t)
    \/ \E t \in InFlight : DeletePhotosFailed(t)
    \/ \E ids \in MutatedIdSets : HardDeletePhotos(ids)
    \/ \E t \in InFlight : HardDeletePhotosResult(t)
    \/ \E t \in InFlight : HardDeletePhotosFailed(t)
    \/ \E id \in MutatedIds : \E name \in NewFilenames : RenamePhoto(id, name)
    \/ \E t \in InFlight : RenamePhotoResult(t)
    \/ \E t \in InFlight : RenamePhotoFailed(t)
    \/ \E t \in InFlight : RowNotFound(t)
    \/ ToggleMultiSelect
    \/ \E photo \in Records(filteredPhotos) : OpenPhoto(photo)

MutateSpec == MutateInit /\ [][MutateNext]_vars

\* ── Specification: the selection over a filtered view of a small library ──

\* the ids togglePhotoSelection is called with: the cached ones and one that is not
SelectableIds == 1..(MaxCacheLen + 1)

SelectInit == MutateInit

SelectNext ==
    \/ \E section \in Sections : SetSection(section)
    \/ \E query \in SearchTexts : SearchPhotosNow(query)
    \/ ToggleMultiSelect
    \/ ClearSelection
    \/ \E id \in SelectableIds : TogglePhotoSelection(id)
    \/ SelectAllPhotos
    \/ \E photo \in Records(filteredPhotos) : OpenPhoto(photo)
    \/ \E ids \in MutatedIdSets : HardDeletePhotos(ids)
    \/ \E t \in InFlight : HardDeletePhotosResult(t)

SelectSpec == SelectInit /\ [][SelectNext]_vars

\* ── Specification: the settings, their persistent copy and the folder list ──

\* a library whose records lie in five folders, one record in no folder and
\* two in the same one
FolderLibrary ==
    <<PhotoRecord(1, <<"a">>, <<"b">>, 150, 150, 1, "photo", "s1", FALSE),
      PhotoRecord(2, <<"a">>, <<"a">>, 150, 150, 1, "photo", "s1", FALSE),
      PhotoRecord(3, <<"a">>, <<"B">>, 150, 150, 1, "photo", "s1", FALSE),
      PhotoRecord(4, <<"a">>, NoString, 150, 150, 1, "photo", "s1", FALSE),
      PhotoRecord(5, <<"a">>, <<"a", "b">>, 150, 150, 1, "photo", "s1", FALSE),
      PhotoRecord(6, <<"a">>, <<"b">>, 150, 150, 1, "photo", "s1", FALSE),
      PhotoRecord(7, <<"a">>, <<"x">>, 150, 150, 1, "photo", "s1", FALSE)>>

\* how many records of FolderLibrary are cached
FolderCacheSizes == {3, 7}

\* the folders the settings panel toggles, and the values of its slider
\* (SettingsPanel.svelte:268-270: min 3, max 20)
ToggledFolders == {<<"a">>, <<"B">>}
SliderValues == {3, 8}

\* a complete item written by an earlier run
CompleteText ==
    JSONStringify([defaultSettings EXCEPT !.theme = "dark",
                                          !.hiddenFolders = <<<<"b">>>>,
                                          !.pinnedFolders = <<<<"b">>, <<"x">>>>,
                                          !.maxVisibleFolders = 3])

\* an item that lacks keys, as a version with fewer settings wrote it
PartialText ==
    <<<<"pinnedFolders", <<<<"x">>, <<"a", "b">>>>>>, <<"maxVisibleFolders", 3>>>>

\* what the storage can hold when the application starts
StoredItems ==
    {NoItem, GarbageItem, DeniedStorage, TextItem(CompleteText), TextItem(PartialText)}

SettingsInit ==
    /\ dataset = FolderLibrary
    /\ photos \in {SubSeq(FolderLibrary, 1, n) : n \in FolderCacheSizes}
    /\ hasMorePhotos = FALSE
    /\ isLoadingMore = FALSE
    /\ tasks = EmptyBag
    /\ console = ""
    /\ failures = 0
    /\ earlyReturns = 0
    /\ filters = DefaultFilters
    /\ searchQuery = NoString
    /\ sortBy = "date-desc"
    /\ activeSection = "all"
    /\ activeSource = NoSource
    /\ now = Morning
    /\ uiEvents = 0
    /\ \E item \in StoredItems :
           /\ appSettings = loadSettings(item)
           /\ localStorage = saveSettings(item, loadSettings(item))
    /\ searchTimer = <<>>
    /\ timers = {}
    /\ libraryPath = <<>>
    /\ isIndexing = FALSE
    /\ dialog = <<>>
    /\ InitSelection

\* appSettings.update(updater), which runs the subscriber of store.ts:146-164:
\* saveSettings first; the theme, palette and accent it then applies are
\* attributes of the document
UpdateStore(settings) ==
    /\ CanChange
    /\ uiEvents' = uiEvents + 1
    /\ appSettings' = settings
    /\ localStorage' = saveSettings(localStorage, settings)
    /\ UNCHANGED <<pagingVars, selVars, filters, searchQuery, sortBy, activeSection,
                   activeSource, now, timerVars, libraryVars>>

\* store.ts:167-172
ToggleTheme ==
    UpdateStore(Spread(appSettings,
                       [theme |-> IF appSettings.theme = "light" THEN "dark" ELSE "light"]))

\* store.ts:174-176
UpdateSettings(partial) == UpdateStore(Spread(appSettings, partial))

\* SettingsPanel.svelte:82-88 / 93-99: splice the folder out if indexOf finds it,
\* else push it
ToggleInArray(array, f) ==
    IF InArray(array, f)
    THEN LET idx == CHOOSE i \in 1..Len(array) :
                        array[i] = f /\ \A j \in 1..(i - 1) : array[j] # f
         IN SubSeq(array, 1, idx - 1) \o SubSeq(array, idx + 1, Len(array))
    ELSE Append(array, f)

\* SettingsPanel.svelte:81-90
ToggleFolderHidden(folder) ==
    UpdateSettings([hiddenFolders |-> ToggleInArray(appSettings.hiddenFolders, folder)])

\* SettingsPanel.svelte:92-101
ToggleFolderPinned(folder) ==
    UpdateSettings([pinnedFolders |-> ToggleInArray(appSettings.pinnedFolders, folder)])

\* SettingsPanel.svelte:267-278: the slider of the sidebar folders
SetMaxVisibleFolders(n) == UpdateSettings([maxVisibleFolders |-> n])

\* the item is replaced or lost, or the storage refuses access, while the
\* application runs or between two runs
StorageChanged(item) ==
    /\ localStorage' = item
    /\ UNCHANGED <<pagingVars, selVars, viewVars, appSettings, timerVars, libraryVars>>

\* the window is reloaded: every store is constructed anew, the settings by
\* loadSettings (store.ts:101-102), and the subscriber runs once on subscribing
\* (store.ts:146-147)
Restart ==
    /\ tasks = EmptyBag
    /\ appSettings' = loadSettings(localStorage)
    /\ localStorage' = saveSettings(localStorage, appSettings')
    /\ photos' = <<>>
    /\ hasMorePhotos' = TRUE
    /\ isLoadingMore' = FALSE
    /\ selectedPhoto' = <<>>
    /\ selectedPhotoIds' = {}
    /\ isMultiSelectMode' = FALSE
    /\ filters' = DefaultFilters
    /\ searchQuery' = NoString
    /\ sortBy' = "date-desc"
    /\ activeSection' = "all"
    /\ activeSource' = NoSource
    /\ searchTimer' = <<>>
    /\ timers' = {}
    /\ libraryPath' = <<>>
    /\ isIndexing' = FALSE
    /\ UNCHANGED <<dataset, tasks, console, failures, earlyReturns, now, uiEvents, dialog>>

SettingsNext ==
    \/ ToggleTheme
    \/ \E folder \in ToggledFolders : ToggleFolderHidden(folder)
    \/ \E folder \in ToggledFolders : ToggleFolderPinned(folder)
    \/ \E n \in SliderValues : SetMaxVisibleFolders(n)
    \/ \E item \in StoredItems : StorageChanged(item)
    \/ Restart

SettingsSpec == SettingsInit /\ [][SettingsNext]_vars

\* ── Specification: the search field (store.ts:481-490) ──

\* the granularity of the timer clock, in milliseconds
TICK_MS == 100
\* the delays debouncedSearch is called with; store.ts:487: delay = 300
Delays == {TICK_MS, 300}
\* what the user types into the search field
TypedTexts == {NoString, <<"a">>, <<"a", "b">>, <<"b">>}

\* setTimeout(callback, delay): a timeout with a handle no other timeout has had
Timeout(id, query, delay) == [id |-> id, query |-> query, remaining |-> delay]

\* clearTimeout(handle): the timeout with that handle, if it has not run, is dropped
ClearTimeout(table, handle) == {t \in table : <<t.id>> # handle}

\* the handle setTimeout returns: handles count up and are never used twice
NextHandle == IF searchTimer = <<>> THEN 1 ELSE searchTimer[1] + 1

\* debouncedSearch without the clearTimeout
DebouncedSearchNoClear(query, delay) ==
    /\ CanChange
    /\ uiEvents' = uiEvents + 1
    /\ timers' = timers \cup {Timeout(NextHandle, query, delay)}
    /\ searchTimer' = <<NextHandle>>
    /\ UNCHANGED <<pagingVars, selVars, filters, searchQuery, sortBy, activeSection,
                   activeSource, now, settingsVars, libraryVars>>

\* store.ts:487-490
DebouncedSearch(query, delay) ==
    /\ CanChange
    /\ uiEvents' = uiEvents + 1
    /\ timers' = (IF searchTimer # <<>> THEN ClearTimeout(timers, searchTimer) ELSE timers)
                     \cup {Timeout(NextHandle, query, delay)}
    /\ searchTimer' = <<NextHandle>>
    /\ UNCHANGED <<pagingVars, selVars, filters, searchQuery, sortBy, activeSection,
                   activeSource, now, settingsVars, libraryVars>>

\* TICK_MS milliseconds pass
Elapse ==
    /\ \E t \in timers : t.remaining > 0
    /\ timers' = {[t EXCEPT !.remaining = IF @ > TICK_MS THEN @ - TICK_MS ELSE 0] :
                     t \in timers}
    /\ UNCHANGED <<pagingVars, selVars, viewVars, settingsVars, searchTimer, libraryVars>>

\* store.ts:489: the callback of a timeout whose delay has passed runs
TimerFires(t) ==
    /\ t.remaining = 0
    /\ searchQuery' = t.query
    /\ timers' = timers \ {t}
    /\ UNCHANGED <<pagingVars, selVars, filters, sortBy, activeSection, activeSource, now,
                   uiEvents, settingsVars, searchTimer, libraryVars>>

SearchInit == MutateInit

SearchNext ==
    \/ \E query \in TypedTexts : \E delay \in Delays : DebouncedSearch(query, delay)
    \/ \E query \in TypedTexts : SearchPhotosNow(query)
    \/ Elapse
    \/ \E t \in timers : TimerFires(t)

SearchSpec == SearchInit /\ [][SearchNext]_vars

\* time passes, and the event loop runs the callback of a timeout that is due
FairSearchSpec ==
    /\ SearchSpec
    /\ WF_vars(Elapse)
    /\ WF_vars(\E t \in timers : TimerFires(t))

\* ── Specification: pagination while the user changes the view ──

\* the sections and folders the user switches to while pages are fetched
BrowsedSections == {"favorites", "videos"}
BrowsedFolders == {<<"x">>}
BrowseDatasetSizes == {240}

BrowseInit == InitWith(BrowseDatasetSizes)

BrowseNext ==
    \/ LoadAllPhotos
    \/ \E t \in InFlight : LoadAllPhotosPage(t)
    \/ LoadMorePhotos
    \/ \E t \in InFlight : LoadMorePhotosPage(t)
    \/ \E a \in AlbumIds : LoadAlbumPhotos(a)
    \/ \E t \in InFlight : LoadAlbumPhotosResult(t)
    \/ \E n \in TagNames : LoadTagPhotos(n)
    \/ \E t \in InFlight : LoadTagPhotosResult(t)
    \/ \E section \in BrowsedSections : SetSection(section)
    \/ \E folder \in BrowsedFolders : SetFilter("selectedFolder", folder)

BrowseSpec == BrowseInit /\ [][BrowseNext]_vars

\* ── Specification: a selection made while the cache window slides ──

\* the ids of the thumbnails the user clicks
ClickedIds == {1, 2}

EvictInit == WindowInit

\* one load at a time; with the default view every cached record is in the grid
EvictNext ==
    \/ Idle /\ LoadAllPhotos
    \/ \E t \in InFlight : LoadAllPhotosPage(t)
    \/ Idle /\ LoadMorePhotos
    \/ \E t \in InFlight : LoadMorePhotosPage(t)
    \/ ToggleMultiSelect
    \/ \E i \in 1..Len(photos) : photos[i].id \in ClickedIds /\ OpenPhoto(photos[i])

EvictSpec == EvictInit /\ [][EvictNext]_vars

\* ── selectLibrary / indexLibrary (store.ts:417-466) and the failures of every call ──

\* message(text, { title, kind: 'error' }): the dialog is shown, and the caller
\* waits until the user closes it
ShowMessage(title) == Append(dialog, title)

\* the folders the user picks in the folder chooser
LibraryPaths == {"/lib"}

\* the call of indexLibrary: store.ts:437-442, up to the first await
StartIndexing ==
    /\ CanSuspend
    /\ isIndexing' = TRUE
    /\ IF libraryPath' = <<>>
       THEN \* line 440 throws: the catch block logs and shows the dialog
            /\ console' = "Failed to index library:"
            /\ dialog' = ShowMessage("Indexing Error")
            /\ tasks' = Suspend(Task("indexLibrary", "message", 0, 0, ""))
       ELSE /\ tasks' = Suspend(Task("indexLibrary", "select_and_index", 0, 0, ""))
            /\ UNCHANGED <<console, dialog>>

\* store.ts:436-466: indexLibrary called for the library path that is set
IndexLibrary ==
    /\ CanChange
    /\ uiEvents' = uiEvents + 1
    /\ UNCHANGED libraryPath
    /\ StartIndexing
    /\ UNCHANGED <<dataset, photos, hasMorePhotos, isLoadingMore, failures, earlyReturns,
                   selVars, filters, searchQuery, sortBy, activeSection, activeSource, now,
                   settingsVars, timerVars>>

\* store.ts:417-428: the folder chooser resolved with a folder; indexLibrary
\* catches every error, so the catch block of selectLibrary is not entered from it
SelectLibrary(path) ==
    /\ CanChange
    /\ uiEvents' = uiEvents + 1
    /\ libraryPath' = <<path>>
    /\ StartIndexing
    /\ UNCHANGED <<dataset, photos, hasMorePhotos, isLoadingMore, failures, earlyReturns,
                   selVars, filters, searchQuery, sortBy, activeSection, activeSource, now,
                   settingsVars, timerVars>>

\* select_and_index rejected: store.ts:459-461
IndexLibraryFailed(t) ==
    /\ t.fn = "indexLibrary" /\ t.awaiting = "select_and_index"
    /\ CanFail
    /\ failures' = failures + 1
    /\ console' = "Failed to index library:"
    /\ dialog' = ShowMessage("Indexing Error")
    /\ tasks' = Resume(t) (+) SetToBag({Task("indexLibrary", "message", 0, 0, "")})
    /\ UNCHANGED <<dataset, photos, hasMorePhotos, isLoadingMore, earlyReturns, selVars,
                   viewVars, settingsVars, timerVars, libraryPath, isIndexing>>

\* select_and_index resolved: loadAllPhotos is called (store.ts:445) and waits
\* for its first page
IndexLibraryIndexed(t) ==
    /\ t.fn = "indexLibrary" /\ t.awaiting = "select_and_index"
    /\ tasks' = Resume(t) (+) SetToBag({Task("indexLibrary", "get_all_photos", 0, 0, "")})
    /\ UNCHANGED <<dataset, photos, hasMorePhotos, isLoadingMore, console, failures,
                   earlyReturns, selVars, viewVars, shellVars>>

\* the first page of that loadAllPhotos resolved (store.ts:523-524); the
\* refresh of sourceDirectories (448-458) is outside this model; finally (463)
IndexLibraryPage(t) ==
    /\ t.fn = "indexLibrary" /\ t.awaiting = "get_all_photos"
    /\ LET firstPage == GetAllPhotos(PAGE_SIZE, t.offset)
       IN /\ photos' = firstPage
          /\ hasMorePhotos' = HasMoreAfter(firstPage)
    /\ isIndexing' = FALSE
    /\ tasks' = Resume(t)
    /\ UNCHANGED <<dataset, isLoadingMore, console, failures, earlyReturns, selVars,
                   viewVars, settingsVars, timerVars, libraryPath, dialog>>

\* the first page of that loadAllPhotos was rejected: loadAllPhotos catches the
\* error itself (store.ts:537-539), indexLibrary goes on to its finally
IndexLibraryPageFailed(t) ==
    /\ t.fn = "indexLibrary" /\ t.awaiting = "get_all_photos"
    /\ CanFail
    /\ failures' = failures + 1
    /\ console' = "Failed to load photos:"
    /\ isIndexing' = FALSE
    /\ tasks' = Resume(t)
    /\ UNCHANGED <<dataset, photos, hasMorePhotos, isLoadingMore, earlyReturns, selVars,
                   viewVars, settingsVars, timerVars, libraryPath, dialog>>

\* the user closes the error dialog: the await of store.ts:461 ends, finally (463)
DialogClosed(t) ==
    /\ t.fn = "indexLibrary" /\ t.awaiting = "message"
    /\ isIndexing' = FALSE
    /\ tasks' = Resume(t)
    /\ UNCHANGED <<dataset, photos, hasMorePhotos, isLoadingMore, console, failures,
                   earlyReturns, selVars, viewVars, settingsVars, timerVars, libraryPath,
                   dialog>>

\* ── Specification: every function that calls the repository, one call at a time ──

ErrorDatasetSizes == {240}

ErrorInit == InitWith(ErrorDatasetSizes)

ErrorNext ==
    \/ Idle /\ LoadAllPhotos
    \/ \E t \in InFlight : LoadAllPhotosPage(t)
    \/ \E t \in InFlight : LoadAllPhotosFailed(t)
    \/ Idle /\ LoadMorePhotos
    \/ \E t \in InFlight : LoadMorePhotosPage(t)
    \/ \E t \in InFlight : LoadMorePhotosFailed(t)
    \/ Idle /\ \E a \in AlbumIds : LoadAlbumPhotos(a)
    \/ \E t \in InFlight : LoadAlbumPhotosResult(t)
    \/ \E t \in InFlight : LoadAlbumPhotosFailed(t)
    \/ Idle /\ \E n \in TagNames : LoadTagPhotos(n)
    \/ \E t \in InFlight : LoadTagPhotosResult(t)
    \/ \E t \in InFlight : LoadTagPhotosFailed(t)
    \/ Idle /\ \E id \in MutatedIds : ToggleFavorite(id)
    \/ \E t \in InFlight : ToggleFavoriteResult(t)
    \/ \E t \in InFlight : ToggleFavoriteFailed(t)
    \/ Idle /\ \E ids \in MutatedIdSets : DeletePhotos(ids)
    \/ \E t \in InFlight : DeletePhotosResult(t)
    \/ \E t \in InFlight : DeletePhotosFailed(t)
    \/ Idle /\ \E ids \in MutatedIdSets : HardDeletePhotos(ids)
    \/ \E t \in InFlight : HardDeletePhotosResult(t)
    \/ \E t \in InFlight : HardDeletePhotosFailed(t)
    \/ Idle /\ \E id \in MutatedIds : \E name \in NewFilenames : RenamePhoto(id, name)
    \/ \E t \in InFlight : RenamePhotoResult(t)
    \/ \E t \in InFlight : RenamePhotoFailed(t)
    \/ \E t \in InFlight : RowNotFound(t)
    \/ Idle /\ IndexLibrary
    \/ Idle /\ \E path \in LibraryPaths : SelectLibrary(path)
    \/ \E t \in InFlight : IndexLibraryFailed(t)
    \/ \E t \in InFlight : IndexLibraryIndexed(t)
    \/ \E t \in InFlight : IndexLibraryPage(t)
    \/ \E t \in InFlight : IndexLibraryPageFailed(t)
    \/ \E t \in InFlight : DialogClosed(t)

ErrorSpec == ErrorInit /\ [][ErrorNext]_vars

\* ── Detail view (part_000:28-108; mounted while selectedPhoto is set, App.svelte:107) ──

\* Array.findIndex(p => p.id === id): the 0-based index of the first match, or -1
FindIndex(list, id) ==
    IF \E i \in 1..Len(list) : list[i].id = id
    THEN (CHOOSE i \in 1..Len(list) :
              list[i].id = id /\ \A j \in 1..(i - 1) : list[j].id # id) - 1
    ELSE -1

\* part_000:30-32: the reactive declaration of currentIndex
currentIndex ==
    IF selectedPhoto # <<>> THEN FindIndex(filteredPhotos, selectedPhoto[1].id) ELSE -1

\* array[idx] with a 0-based index: the element, or undefined (read by the
\* stores' consumers like null) outside the array
ElementAt(list, idx) ==
    IF idx >= 0 /\ idx < Len(list) THEN <<list[idx + 1]>> ELSE <<>>

\* NewIndex without Math.max and Math.min
NewIndexUnclamped(direction, index, length) ==
    IF direction = "prev" THEN index - 1 ELSE index + 1

\* part_000:90-93
NewIndex(direction, index, length) ==
    IF direction = "prev"
    THEN (IF index - 1 > 0 THEN index - 1 ELSE 0)
    ELSE Min(length - 1, index + 1)

\* part_000:88-98: the arrow keys, the arrow buttons and a horizontal swipe
Navigate(direction) ==
    /\ selectedPhoto # <<>>
    /\ LET newIndex == NewIndex(direction, currentIndex, Len(filteredPhotos))
       IN IF currentIndex < 0 \/ newIndex = currentIndex
          THEN UNCHANGED selectedPhoto
          ELSE selectedPhoto' = ElementAt(filteredPhotos, newIndex)
    /\ UNCHANGED <<pagingVars, selectedPhotoIds, isMultiSelectMode, viewVars, shellVars>>

\* part_000:100-104: a click on a thumbnail of the filmstrip
GoToPhoto(idx) ==
    /\ selectedPhoto # <<>>
    /\ IF idx >= 0 /\ idx < Len(filteredPhotos)
       THEN selectedPhoto' = ElementAt(filteredPhotos, idx)
       ELSE UNCHANGED selectedPhoto
    /\ UNCHANGED <<pagingVars, selectedPhotoIds, isMultiSelectMode, viewVars, shellVars>>

\* part_000:106-109: selectedPhoto.set(null); showInfoPanel is outside the model
CloseDetail ==
    /\ selectedPhoto # <<>>
    /\ selectedPhoto' = <<>>
    /\ UNCHANGED <<pagingVars, selectedPhotoIds, isMultiSelectMode, viewVars, shellVars>>

\* ── Specification: the detail view over a filtered view of a small library ──

\* the indices goToPhoto is called with: those of the cache and one on each side
Indices == (0 - 1)..MaxCacheLen

DetailInit == MutateInit

DetailNext ==
    \/ \E section \in Sections : SetSection(section)
    \/ \E query \in SearchTexts : SearchPhotosNow(query)
    \/ \E key \in SortKeys : SetSortBy(key)
    \/ \E photo \in Records(filteredPhotos) : OpenPhoto(photo)
    \/ \E direction \in {"prev", "next"} : Navigate(direction)
    \/ \E idx \in Indices : GoToPhoto(idx)
    \/ CloseDetail

DetailSpec == DetailInit /\ [][DetailNext]_vars

\* ══ Properties ══

\* a step in which the page fetch t resolves (its task leaves the bag and no
\* failure is recorded)
PageResolved(t) ==
    /\ IsPageFetch(t)
    /\ tasks' = Resume(t)
    /\ failures' = failures

\* the page the repository returns for the fetch t
PageOf(t) == GetAllPhotos(PAGE_SIZE, t.offset)

\* C1: every append of loadMorePhotos leaves at most 2000 records in the cache,
\* and the new cache is the tail of (previous cache followed by the new page):
\* all of it when that fits, exactly its last 2000 elements when it overflows.
C1_AppendKeepsTail ==
    [][\A t \in InFlight :
         (PageResolved(t) /\ t.fn = "loadMorePhotos" /\ Len(PageOf(t)) > 0) =>
           LET combined == photos \o PageOf(t)
               n == Len(combined)
           IN /\ Len(photos') <= MAX_PHOTOS_IN_MEMORY
              /\ n <= MAX_PHOTOS_IN_MEMORY => photos' = combined
              /\ n > MAX_PHOTOS_IN_MEMORY =>
                    /\ Len(photos') = MAX_PHOTOS_IN_MEMORY
                    /\ \A i \in 1..MAX_PHOTOS_IN_MEMORY :
                          photos'[i] = combined[n - MAX_PHOTOS_IN_MEMORY + i]]_vars

\* C1 witness: 21 pages of a 2100-record dataset were appended, the last append
\* overflowed and the first page was dropped from the head
C1_Witness ==
    /\ Len(dataset) = 2100
    /\ Len(photos) = MAX_PHOTOS_IN_MEMORY
    /\ photos[1].id = 101
    /\ photos[MAX_PHOTOS_IN_MEMORY].id = 2100

\* C2: in every reachable state the cache holds at most CAP = 2000 records,
\* also directly after a replace (loadAllPhotos, loadAlbumPhotos, loadTagPhotos)
C2_CacheWithinCap == Len(photos) <= MAX_PHOTOS_IN_MEMORY

\* C3: in every reachable state no two records of the cache have the same id
C3_UniqueIds == Cardinality(Ids(photos)) = Len(photos)

\* C4: on a dataset of 2500 records, the first page followed by loadMore after
\* loadMore ends with hasMore = false and the cache holding the records with
\* fetch-index 500..2499, in order
C4_ScenarioD ==
    (Len(dataset) = 2500) =>
        <>(/\ ~hasMorePhotos
           /\ Len(photos) = 2000
           /\ \A i \in 1..2000 : photos[i] = dataset[500 + i])

\* C5: every resolved page fetch sets hasMore to (page length >= 100), so it is
\* false exactly after a page shorter than pageSize (an empty one included),
\* and nothing but a resolved page fetch changes hasMore
C5_HasMoreTracksLastPage ==
    [][/\ \A t \in InFlight :
            PageResolved(t) => hasMorePhotos' = (Len(PageOf(t)) >= 100)
       /\ hasMorePhotos' # hasMorePhotos => \E t \in InFlight : PageResolved(t)]_vars

\* C5 witness: the third page of a 240-record dataset had 40 records and
\* hasMore went false
C5_Witness ==
    /\ Len(dataset) = 240
    /\ Len(photos) = 240
    /\ ~hasMorePhotos

\* C6: a dataset of N <= 2000 records fetched sequentially ends with the cache
\* holding all N records in dataset order and hasMore = false (pages of 100,
\* 100 and 40 records give 240)
C6_SequentialLoadsAll ==
    /\ []((Idle /\ ~hasMorePhotos /\ Len(dataset) <= 2000) => photos = dataset)
    /\ (Len(dataset) <= 2000) => <>(~hasMorePhotos /\ photos = dataset)

\* C6 witness: scenario A has run to its end
C6_Witness ==
    /\ Idle
    /\ ~hasMorePhotos
    /\ Len(photos) = 240
    /\ photos = dataset

C8_GuardedLoadMoreIsNoOp ==
    [][(isLoadingMore \/ ~hasMorePhotos) =>
         /\ \A t \in BagToSet(tasks') :
               IsLoadMoreFetch(t) => CopiesIn(t, tasks') <= CopiesIn(t, tasks)
         /\ earlyReturns' # earlyReturns =>
               UNCHANGED <<photos, hasMorePhotos, isLoadingMore, tasks>>]_vars

\* C8 witness: loadMorePhotos was called while a loadMore fetch was in flight
\* and returned at the guard
C8_Witness ==
    /\ earlyReturns >= 1
    /\ isLoadingMore
    /\ hasMorePhotos
    /\ NumInFlight(IsLoadMoreFetch) = 1

\* C9: isLoadingMore is true exactly while a loadMore fetch is in flight (set
\* when the guard is passed, reset when the fetch resolves or rejects), and
\* when every repository call completes it is always false again later
C9_LoadingFlagResets ==
    /\ [](isLoadingMore <=> NumInFlight(IsLoadMoreFetch) = 1)
    /\ isLoadingMore ~> ~isLoadingMore

\* C9 witness: a loadMore fetch was rejected and the flag is down again
C9_Witness ==
    /\ console = "Failed to load more photos:"
    /\ ~isLoadingMore
    /\ Idle

\* C10: the step in which a loadMore fetch is rejected changes neither the
\* cache nor hasMore and leaves isLoadingMore false, so with hasMore still
\* true the guard of the next loadMorePhotos call passes
C10_FailedLoadMoreCanRetry ==
    [][(failures' # failures /\ console' = "Failed to load more photos:") =>
         /\ photos' = photos
         /\ hasMorePhotos' = hasMorePhotos
         /\ isLoadingMore' = FALSE
         /\ hasMorePhotos => ~(isLoadingMore' \/ ~hasMorePhotos')]_vars

\* C10 witness: after a rejected loadMore fetch a new loadMore fetch is in flight
C10_Witness ==
    /\ console = "Failed to load more photos:"
    /\ failures >= 1
    /\ NumInFlight(IsLoadMoreFetch) = 1

\* C11: loadAllPhotos fetches with limit 100 and offset 0; when the fetch
\* succeeds the cache becomes exactly the returned page and hasMorePhotos becomes
\* (length of the page >= 100); when the fetch fails the cache and hasMorePhotos
\* are left as they were
C11_FirstPageReplaces ==
    [][\A t \in InFlight :
         (t.fn = "loadAllPhotos" /\ tasks' = Resume(t)) =>
            /\ t.offset = 0
            /\ failures' = failures =>
                  LET last == IF Len(dataset) < 100 THEN Len(dataset) ELSE 100
                  IN /\ photos' = SubSeq(dataset, 1, last)
                     /\ hasMorePhotos' = (last >= 100)
            /\ failures' # failures =>
                  /\ photos' = photos
                  /\ hasMorePhotos' = hasMorePhotos]_vars

\* C11 witness: on the dataset of 240 records one first-page fetch was rejected
\* and one resolved: the cache holds the first 100 records and hasMorePhotos is
\* true
C11_Witness ==
    /\ Len(dataset) = 240
    /\ tasks = EmptyBag
    /\ failures = 1
    /\ console = "Failed to load photos:"
    /\ Len(photos) = 100
    /\ photos[100].id = 100
    /\ hasMorePhotos

\* the local state the mutating functions write
localState == <<photos, selectedPhoto, selectedPhotoIds, isMultiSelectMode>>

IsMutation(t) ==
    t.fn \in {"toggleFavorite", "deletePhotos", "hardDeletePhotos", "renamePhoto"}

\* the three kinds of step a mutating call t takes
MutationCalled(t) == IsMutation(t) /\ tasks' = Suspend(t)
MutationRejected(t) == IsMutation(t) /\ tasks' = Resume(t) /\ failures' = failures + 1
MutationResolved(t) == IsMutation(t) /\ tasks' = Resume(t) /\ failures' = failures

\* the state of the record with the given id in the repository
Row(table, photoId) == CHOOSE p \in Records(table) : p.id = photoId

\* after the step the cache and selectedPhoto both show the whole effect of t
WholeUpdateApplied(t) ==
    LET shown == Records(photos') \cup Records(selectedPhoto')
    IN /\ t.fn = "toggleFavorite" =>
             \A p \in shown :
                 p.id \in t.photoIds => p.isFavorite = Row(dataset', p.id).isFavorite
       /\ t.fn = "renamePhoto" =>
             \A p \in shown :
                 p.id \in t.photoIds =>
                     /\ p.filename = t.newFilename
                     /\ p.path = Row(dataset', p.id).path
       /\ t.fn \in {"deletePhotos", "hardDeletePhotos"} =>
             /\ \A p \in shown : p.id \notin t.photoIds
             /\ Len(photos') = Cardinality(Ids(photos) \ t.photoIds)
       /\ t.fn = "hardDeletePhotos" => selectedPhotoIds' = {} /\ ~isMultiSelectMode'
       /\ t.fn # "hardDeletePhotos" =>
             UNCHANGED <<selectedPhotoIds, isMultiSelectMode>>

\* C12: toggleFavorite, deletePhotos, hardDeletePhotos and renamePhoto do not
\* change the cache, selectedPhoto or the selection set before their repository
\* call resolves; when the call fails the local state is exactly as before; when
\* it succeeds the whole local update is applied in that one step
C12_NoOptimisticUpdate ==
    [][/\ \A t \in BagToSet(tasks') :
             MutationCalled(t) => localState' = localState
       /\ \A t \in InFlight :
             /\ MutationRejected(t) => localState' = localState
             /\ MutationResolved(t) => WholeUpdateApplied(t)]_vars

\* C12 witness: with a photo open in the detail view and one selected in
\* multi-select mode, one mutating call was rejected and another renamed the
\* open photo: the cache and the detail view hold the same renamed record
C12_Witness ==
    /\ failures = 1
    /\ tasks = EmptyBag
    /\ uiEvents = 2
    /\ selectedPhoto # <<>>
    /\ selectedPhoto[1].filename = <<"y">>
    /\ selectedPhoto[1] \in Records(photos)
    /\ selectedPhotoIds # {}

\* the output of the pipeline had it been evaluated at the instant clock
OutputAt(clock) ==
    FilterPipeline(photos, filters, searchQuery, sortBy, activeSection, activeSource, clock)

\* C13 (as claimed): the output of the Filter Pipeline depends only on its six
\* inputs: evaluated at any two moments, in any section including recents, with
\* identical inputs, it is the identical ordered sequence (every evaluation at
\* another moment gives the sequence the evaluation now gives)
C13_SameInputsSameOutput ==
    LET output == filteredPhotos
    IN \A t \in Clock : OutputAt(t) = output

\* C13 (amended): in every section other than recents the output of the Filter
\* Pipeline depends only on its six inputs: evaluated at any two moments with
\* identical inputs it is the identical ordered sequence; in recents it depends
\* on the instant of the evaluation as well
C13_SameOutputOutsideRecents ==
    LET output == filteredPhotos
    IN activeSection # "recents" => \A t \in Clock : OutputAt(t) = output

\* C13 witness: the favorites section, entered on 6 Feb, is evaluated again on the
\* afternoon of 14 Feb with the same inputs and shows two records
C13_Witness ==
    /\ now = Morning + 1
    /\ activeSection = "favorites"
    /\ Len(filteredPhotos) = 2
    /\ uiEvents = 1

\* a record passes every stage of the pipeline, in the words of section 4.3:
\* recents keeps the effective dates from 30 days ago through the current instant
PassesAllStages(p) ==
    /\ (activeSection = "source" /\ activeSource # NoSource) => p.source = activeSource
    /\ activeSection = "favorites" => p.isFavorite
    /\ activeSection = "videos" => p.mediaType = "video"
    /\ activeSection = "recents" =>
          /\ EffectiveDate(p) >= now - 30 * DAY_MS
          /\ EffectiveDate(p) <= now
    /\ searchQuery # NoString =>
          \E field \in {p.filename, p.path, p.folderRel} :
              Includes(ToLowerCase(field), ToLowerCase(searchQuery))
    /\ activeSection # "videos" => p.mediaType \in filters.selectedMediaTypes
    /\ filters.selectedFolder # NoString => p.folderRel = filters.selectedFolder
    /\ filters.selectedYear # NoYear => GetFullYear(EffectiveDate(p)) = filters.selectedYear
    /\ (filters.selectedMonth # NoMonth /\ filters.selectedYear # NoYear) =>
          GetMonth(EffectiveDate(p)) = filters.selectedMonth

\* C14: the records in the output of the Filter Pipeline are exactly the cache
\* records that pass all stages: source match, section predicate (recents: the
\* effective date within the last 30 days), search, media type, folder and year
\* (and the month stage of C15)
C14_OutputIsStagesPassed ==
    Records(filteredPhotos) = {p \in Records(photos) : PassesAllStages(p)}

\* the output of the pipeline had the FilterState been fs
OutputWith(fs) ==
    FilterPipeline(photos, fs, searchQuery, sortBy, activeSection, activeSource, now)

YearSet == filters.selectedYear # NoYear
MonthSet == filters.selectedMonth # NoMonth

\* C15: the month stage is applied only when selectedMonth and selectedYear are
\* both set.  With selectedMonth set (0 = January included) and selectedYear
\* unset the output is the output with selectedMonth unset; with selectedYear
\* set and selectedMonth unset it is the records of that year; with both set it
\* is the records matching the year and the zero-based month.
C15_MonthNeedsYear ==
    LET noMonth == [filters EXCEPT !.selectedMonth = NoMonth]
        noYearNoMonth == [noMonth EXCEPT !.selectedYear = NoYear]
    IN /\ (MonthSet /\ ~YearSet) => filteredPhotos = OutputWith(noMonth)
       /\ (YearSet /\ ~MonthSet) =>
             filteredPhotos =
                SelectSeq(OutputWith(noYearNoMonth), LAMBDA p :
                    GetFullYear(EffectiveDate(p)) = filters.selectedYear)
       /\ (YearSet /\ MonthSet) =>
             filteredPhotos =
                SelectSeq(OutputWith(noYearNoMonth), LAMBDA p :
                    /\ GetFullYear(EffectiveDate(p)) = filters.selectedYear
                    /\ GetMonth(EffectiveDate(p)) = filters.selectedMonth)

\* C15 witness: year 2024 and month 0 (January) are selected, the January record
\* is shown and a record of another month of 2024 is not
C15_Witness ==
    /\ filters.selectedYear = 2024 /\ filters.selectedMonth = 0
    /\ Len(filteredPhotos) = 1
    /\ GetMonth(EffectiveDate(filteredPhotos[1])) = 0
    /\ \E p \in Records(photos) :
          GetFullYear(EffectiveDate(p)) = 2024 /\ GetMonth(EffectiveDate(p)) = 1

\* C16: in the videos section the output holds only videos, whatever
\* selectedMediaTypes is (the output is the one all media types selected would
\* give); in every other section the mediaType of each record of the output is
\* in selectedMediaTypes
C16_VideosIgnoreMediaTypes ==
    /\ activeSection = "videos" =>
          /\ \A p \in Records(filteredPhotos) : p.mediaType = "video"
          /\ filteredPhotos =
                OutputWith([filters EXCEPT !.selectedMediaTypes = {"photo", "video"}])
    /\ activeSection # "videos" =>
          \A p \in Records(filteredPhotos) : p.mediaType \in filters.selectedMediaTypes

\* C16 witness: the videos section shows a video while only photos are selected
C16_Witness ==
    /\ activeSection = "videos"
    /\ filters.selectedMediaTypes = {"photo"}
    /\ Len(filteredPhotos) > 0

\* a does not come after b in the order of the selected sort key
KeyInOrder(a, b) ==
    CASE sortBy = "date-desc" -> EffectiveDate(a) >= EffectiveDate(b)
      [] sortBy = "date-asc" -> EffectiveDate(a) <= EffectiveDate(b)
      [] sortBy = "name-asc" -> LocaleCompare(a.filename, b.filename) <= 0
      [] sortBy = "name-desc" -> LocaleCompare(a.filename, b.filename) >= 0
      [] sortBy = "size-desc" -> a.sizeBytes >= b.sizeBytes
      [] sortBy = "size-asc" -> a.sizeBytes <= b.sizeBytes

\* position of a record in a sequence without repetitions
IndexIn(list, p) == CHOOSE i \in 1..Len(list) : list[i] = p

\* C17: the output of the Filter Pipeline is ordered by the selected sort key
\* (effective date, filename or sizeBytes, ascending or descending), and records
\* with equal sort keys keep the relative order they have in the cache
C17_SortedAndStable ==
    LET output == filteredPhotos
    IN \A i, j \in 1..Len(output) :
        i < j =>
          LET a == output[i]
              b == output[j]
          IN /\ KeyInOrder(a, b)
             /\ KeyInOrder(b, a) => IndexIn(photos, a) < IndexIn(photos, b)

\* C17 witness: three records are shown by descending size; the two of equal
\* size were in the cache in the opposite order of their ids
C17_Witness ==
    /\ sortBy = "size-desc"
    /\ Len(filteredPhotos) = 3
    /\ filteredPhotos[1].sizeBytes > filteredPhotos[2].sizeBytes
    /\ filteredPhotos[2].sizeBytes = filteredPhotos[3].sizeBytes
    /\ filteredPhotos[2].id > filteredPhotos[3].id

\* the groups that hold the record p
GroupsOf(groups, p) == {g \in 1..Len(groups) : p \in Records(groups[g].photos)}

RECURSIVE GroupedCount(_, _)
\* number of records in the first n groups
GroupedCount(groups, n) ==
    IF n = 0 THEN 0 ELSE GroupedCount(groups, n - 1) + Len(groups[n].photos)

\* C18: the groups are a partition of the output of the Filter Pipeline: every
\* record of the output is in exactly one group, once, and the groups together
\* hold as many records as the output
C18_GroupsPartitionOutput ==
    LET groups == groupedPhotos
        output == filteredPhotos
    IN /\ \A p \in Records(output) : Cardinality(GroupsOf(groups, p)) = 1
       /\ GroupedCount(groups, Len(groups)) = Len(output)

\* C18 witness: three records are shown in two groups
C18_Witness ==
    /\ Len(filteredPhotos) = 3
    /\ Len(groupedPhotos) = 2
    /\ Len(groupedPhotos[2].photos) = 2
    /\ groupedPhotos[1].label = "January 2024"

\* C19: the groups are emitted in the order in which their keys are first
\* encountered in the output of the Filter Pipeline, and the records of a group
\* are in the order they have in the output
C19_FirstEncounterOrder ==
    LET output == filteredPhotos
        groups == groupedPhotos
        \* position in the output of the first record of the g-th group
        FirstEncounter(g) == IndexIn(output, groups[g].photos[1])
    IN /\ \A g, h \in 1..Len(groups) :
             g < h => FirstEncounter(g) < FirstEncounter(h)
       /\ \A g \in 1..Len(groups) :
             LET group == groups[g].photos
             IN /\ \A k \in 1..Len(group) :
                      FirstEncounter(g) <= IndexIn(output, group[k])
                /\ \A k, l \in 1..Len(group) :
                      k < l => IndexIn(output, group[k]) < IndexIn(output, group[l])

\* C19 witness: the first and the third record of the output share a key, the
\* second has another one: the first group holds two records
C19_Witness ==
    /\ Len(filteredPhotos) = 3
    /\ Len(groupedPhotos) = 2
    /\ groupedPhotos[1].photos = <<filteredPhotos[1], filteredPhotos[3]>>
    /\ groupedPhotos[2].photos = <<filteredPhotos[2]>>

\* the calendar day of now, and the days of the current week, Sunday to Saturday
CurrentDay == DayNumber(now)
CurrentWeek ==
    {d \in (CurrentDay - 6)..(CurrentDay + 6) :
        d - ((d + FirstWeekday) % 7) = CurrentDay - ((CurrentDay + FirstWeekday) % 7)}

InCurrentWeek(p) == DayNumber(EffectiveDate(p)) \in CurrentWeek
InCurrentMonth(p) ==
    /\ GetFullYear(EffectiveDate(p)) = GetFullYear(now)
    /\ GetMonth(EffectiveDate(p)) = GetMonth(now)
IsTodayOrYesterday(p) ==
    DayNumber(EffectiveDate(p)) \in {CurrentDay, CurrentDay - 1}

\* C20: with the precedence Today, Yesterday, This Week, This Month, month and
\* year: a record is in 'This Week' only if its effective day lies within the
\* current week (starting on Sunday) and is neither today nor yesterday, in
\* 'This Month' only if it lies within the current calendar month and in none
\* of the earlier buckets, and in '<Month name> <Year>' otherwise, for every
\* effective date, dates later than today included
C20_BucketPrecedence ==
    LET groups == groupedPhotos
    IN \A g \in 1..Len(groups) :
        \A p \in Records(groups[g].photos) :
            LET label == groups[g].label
                monthYear == MonthNames[GetMonth(EffectiveDate(p)) + 1] \o " "
                                \o ToString(GetFullYear(EffectiveDate(p)))
            IN /\ label = "This Week" => InCurrentWeek(p) /\ ~IsTodayOrYesterday(p)
               /\ label = "This Month" =>
                     InCurrentMonth(p) /\ ~InCurrentWeek(p) /\ ~IsTodayOrYesterday(p)
               /\ (~IsTodayOrYesterday(p) /\ ~InCurrentWeek(p) /\ ~InCurrentMonth(p)) =>
                     label = monthYear

\* ── Selection (SelectSpec) ──

\* C21: selectAllPhotos sets the selection to exactly the ids of the records in
\* the filter pipeline output: a previously selected id that is not in the
\* output is discarded, and no id of a cached record that the filters exclude
\* is selected.
C21_SelectAllTakesOutput ==
    [][SelectAllPhotos =>
         LET output == Ids(filteredPhotos)
         IN /\ selectedPhotoIds' = output
            /\ \A id \in selectedPhotoIds \ output : id \notin selectedPhotoIds'
            /\ \A id \in Ids(photos) \ output : id \notin selectedPhotoIds']_vars

\* everything shown is selected while the filters exclude a cached record
C21_Witness ==
    /\ activeSection = "favorites"
    /\ selectedPhotoIds # {}
    /\ selectedPhotoIds = Ids(filteredPhotos)
    /\ Ids(photos) \ selectedPhotoIds # {}

\* C22: clearSelection leaves the selection empty and multi-select mode off;
\* toggleMultiSelect from on to off leaves the selection empty; toggleMultiSelect
\* from off to on leaves the selection unchanged.
C22_ClearAndExitEmpty ==
    [][/\ ClearSelection => (selectedPhotoIds' = {} /\ ~isMultiSelectMode')
       /\ ToggleMultiSelect =>
              IF isMultiSelectMode
              THEN selectedPhotoIds' = {} /\ ~isMultiSelectMode'
              ELSE selectedPhotoIds' = selectedPhotoIds /\ isMultiSelectMode']_vars

\* multi-select mode is on with a selection made before or after entering it
C22_Witness == isMultiSelectMode /\ selectedPhotoIds # {}

\* C23: togglePhotoSelection(id) adds id to the selection if absent and removes
\* it if present, changes the membership of no other id, and applied twice with
\* the same id it restores the original selection.
C23_ToggleFlipsOneId ==
    /\ [](\A id \in SelectableIds :
            ToggleId(ToggleId(selectedPhotoIds, id), id) = selectedPhotoIds)
    /\ [][\A id \in SelectableIds :
            TogglePhotoSelection(id) =>
                /\ (id \in selectedPhotoIds') <=> (id \notin selectedPhotoIds)
                /\ selectedPhotoIds' \ {id} = selectedPhotoIds \ {id}]_vars

\* two ids were toggled in, one of them of a record that is not cached
C23_Witness ==
    /\ Cardinality(selectedPhotoIds) = 2
    /\ selectedPhotoIds \ Ids(photos) # {}

\* ── Folder list and settings (SettingsSpec) ──

\* the distinct non-empty folderRel values of the whole cache
CachedFolders == {photos[i].folderRel : i \in 1..Len(photos)} \ {NoString}
\* those of them that hiddenFolders does not list
ShownFolders ==
    {f \in CachedFolders :
        \A i \in 1..Len(appSettings.hiddenFolders) : appSettings.hiddenFolders[i] # f}
IsPinned(f) ==
    \E i \in 1..Len(appSettings.pinnedFolders) : appSettings.pinnedFolders[i] = f

\* C24: visibleFolders is computed from the distinct non-empty folderRel values
\* of the whole cache: it contains no hidden folder (even a pinned one), lists
\* every pinned folder before every unpinned one, in collation order inside each
\* part, has no duplicates, and has length
\* min(maxVisibleFolders, number of non-hidden folders).
C24_VisibleFolders ==
    LET visible == visibleFolders
    IN /\ \A i \in 1..Len(visible) : visible[i] \in ShownFolders
       /\ \A i, j \in 1..Len(visible) : i < j =>
              /\ visible[i] # visible[j]
              /\ IsPinned(visible[j]) => IsPinned(visible[i])
              /\ (IsPinned(visible[i]) <=> IsPinned(visible[j]))
                     => LocaleCompare(visible[i], visible[j]) < 0
       /\ Len(visible) = Min(appSettings.maxVisibleFolders, Cardinality(ShownFolders))

\* a pinned folder is hidden, another pinned one leads the list, and the list
\* is cut at maxVisibleFolders
C24_Witness ==
    /\ \E f \in CachedFolders : IsPinned(f) /\ f \notin ShownFolders
    /\ visibleFolders # <<>>
    /\ IsPinned(visibleFolders[1])
    /\ ~IsPinned(visibleFolders[Len(visibleFolders)])
    /\ Len(visibleFolders) < Cardinality(ShownFolders)

\* the value the text of the stored item gives the key k
StoredValue(item, k) ==
    item.text[CHOOSE i \in 1..Len(item.text) :
                  /\ item.text[i][1] = k
                  /\ \A j \in (i + 1)..Len(item.text) : item.text[j][1] # k][2]
StoresKey(item, k) ==
    item.kind = "text" /\ \E i \in 1..Len(item.text) : item.text[i][1] = k
AllKeys == {SettingsKeys[i] : i \in 1..Len(SettingsKeys)}

\* C28: loading the settings returns the stored values merged over the
\* defaults (a stored key overrides the default, a missing key keeps it); when
\* reading or parsing the stored item fails the result is exactly the defaults;
\* and every change of the settings store writes the complete current settings
\* to the storage, which keeps them unless it refuses access.
C28_SettingsLoadAndSave ==
    [][/\ Restart =>
            /\ DOMAIN appSettings' = AllKeys
            /\ \A k \in AllKeys :
                   appSettings'[k] = IF StoresKey(localStorage, k)
                                     THEN StoredValue(localStorage, k)
                                     ELSE defaultSettings[k]
            /\ localStorage.kind \in {"garbage", "denied"}
                   => appSettings' = defaultSettings
       /\ (appSettings' # appSettings /\ localStorage.kind # "denied") =>
            /\ localStorage'.kind = "text"
            /\ Len(localStorage'.text) = Len(SettingsKeys)
            /\ \A k \in AllKeys :
                   /\ StoresKey(localStorage', k)
                   /\ StoredValue(localStorage', k) = appSettings'[k]]_vars

\* the settings were loaded from an item that lacks keys: the stored
\* maxVisibleFolders replaced the default, the theme is the default, and the
\* complete settings were written back
C28_Witness ==
    /\ appSettings.pinnedFolders = <<<<"x">>, <<"a", "b">>>>
    /\ appSettings.maxVisibleFolders = 3
    /\ appSettings.theme = defaultSettings.theme
    /\ localStorage.kind = "text"
    /\ Len(localStorage.text) = Len(SettingsKeys)

\* ── Debounced search (FairSearchSpec) ──

\* a call of debouncedSearch: a new handle is stored
DebounceCalled == searchTimer' # searchTimer
\* the callback of a timeout runs: it leaves the table while the handle stays
CallbackRan == searchTimer' = searchTimer /\ timers' # timers /\ timers' \subseteq timers

\* C25: of the debouncedSearch calls of a burst, each made before the timeout
\* of the one before has run, only the last one writes the search query: each
\* call drops the timeout of the call before, so at most one timeout is pending
\* and it carries the query of the last call; its callback runs once, after its
\* delay has passed, and writes that query.
C25_LastCallWins ==
    /\ [](/\ Cardinality(timers) <= 1
          /\ \A t \in timers : searchTimer = <<t.id>>)
    /\ [][/\ DebounceCalled =>
                /\ Cardinality(timers') = 1
                /\ \A t \in timers' : t \notin timers /\ searchTimer' = <<t.id>>
          /\ CallbackRan =>
                /\ timers' = {}
                /\ \A t \in timers : t.remaining = 0 /\ searchQuery' = t.query
          /\ (searchQuery' # searchQuery /\ uiEvents' = uiEvents) => CallbackRan]_vars
    /\ \A id \in 1..(MaxUiEvents + 1) : \A query \in TypedTexts :
           (\E t \in timers : t.id = id /\ t.query = query)
               ~> \/ searchTimer # <<id>>
                  \/ (timers = {} /\ searchQuery = query)

\* debouncedSearch was called twice and nothing else was done: no timeout is
\* pending, and the text of the second call is the search query
C25_Witness ==
    /\ searchTimer = <<2>>
    /\ uiEvents = 2
    /\ timers = {}
    /\ searchQuery = <<"a", "b">>

\* ── Pagination against view changes and cache replacement (BrowseSpec) ──

\* C26: a loadMorePhotos fetch in flight is not cancelled by a change of the
\* section or the filters or by a replace of the cache (loadAlbumPhotos,
\* loadTagPhotos, loadAllPhotos): it stays in flight until it resolves itself,
\* and a non-empty page it resolves with is appended to the cache of that
\* moment; the page is the one at the offset that was the cache length when the
\* fetch was issued.
C26_InFlightLoadMoreApplies ==
    [][/\ \A t \in InFlight :
            IsLoadMoreFetch(t) =>
               \/ CopiesIn(t, tasks') >= CopiesIn(t, tasks)
               \/ tasks' = Resume(t) /\ UNCHANGED viewVars
       /\ \A t \in InFlight :
            (IsLoadMoreFetch(t) /\ tasks' = Resume(t) /\ Len(PageOf(t)) > 0) =>
               LET combined == photos \o PageOf(t)
                   n == Len(combined)
               IN photos' = SubSeq(combined,
                                   IF n > MAX_PHOTOS_IN_MEMORY
                                   THEN n - MAX_PHOTOS_IN_MEMORY + 1 ELSE 1, n)
       /\ \A t \in BagToSet(tasks') :
            (IsLoadMoreFetch(t) /\ tasks' = Suspend(t)) => t.offset = Len(photos)]_vars

\* a fetch issued at cache length 100 resolved after the section was changed
\* and the cache was replaced by the three photos of album 1: its page, the
\* records 101..200, follows them
C26_Witness ==
    /\ activeSection = "favorites"
    /\ Len(photos) = 103
    /\ photos[3].id = 3
    /\ photos[4].id = 101
    /\ photos[103].id = 200

\* ── Selection against pagination (EvictSpec) ──

\* C27: a change of the cache by pagination, an append with eviction by
\* loadMorePhotos or a replace by the first page of loadAllPhotos, adds no id to
\* the selection, removes none and leaves the multi-select flag as it is, so an
\* id stays selected after its record is evicted.
C27_PaginationKeepsSelection ==
    [][((\E t \in InFlight : IsPageFetch(t) /\ tasks' = Resume(t)) \/ photos' # photos)
          => /\ selectedPhotoIds' = selectedPhotoIds
             /\ isMultiSelectMode' = isMultiSelectMode]_vars

\* record 1 was selected in the grid and then evicted: the cache is full and
\* starts at record 101, and 1 is still selected
C27_Witness ==
    /\ Len(photos) = MAX_PHOTOS_IN_MEMORY
    /\ photos[1].id = 101
    /\ isMultiSelectMode
    /\ 1 \in selectedPhotoIds

\* ── Failures of repository calls (ErrorSpec) ──

\* a call to the repository is rejected
CallRejected == failures' = failures + 1

\* C29: every rejected repository call is reported to the user through a
\* notification, the dialog of message(), and the operation in progress is
\* aborted: it writes nothing to the cache or the selection.
C29_FailuresAreNotified ==
    [][CallRejected => (Len(dialog') = Len(dialog) + 1 /\ UNCHANGED localState)]_vars

\* the part of C29 the code keeps: a rejected call leaves the cache and the
\* selection as they were and writes a line to the console
C29_FailuresAbortAndLog ==
    [][CallRejected => (console' # "" /\ UNCHANGED localState)]_vars

\* ── Single-record mutations (MutateSpec) ──

\* the fields a resolved call of the function writes
FieldsWritten(fn) == IF fn = "toggleFavorite" THEN {"isFavorite"} ELSE {"filename", "path"}

\* C30: a successful toggleFavorite(id) or renamePhoto(id, name) for an id that
\* is not cached leaves the cache as it is: the same records with the same field
\* values in the same order; for a cached id only the isFavorite (resp. filename
\* and path) of that record changes, to the value the repository returned, and
\* its position and every other record stay as they are.
C30_MutateTouchesOneRecord ==
    [][\A t \in InFlight :
         (MutationResolved(t) /\ t.fn \in {"toggleFavorite", "renamePhoto"}) =>
            LET id == PhotoIdOf(t)
                row == Row(dataset', id)
            IN /\ Len(photos') = Len(photos)
               /\ (\A i \in 1..Len(photos) : photos[i].id # id) => photos' = photos
               /\ \A i \in 1..Len(photos) :
                     /\ photos[i].id # id => photos'[i] = photos[i]
                     /\ \A field \in DOMAIN photos[i] \ FieldsWritten(t.fn) :
                            photos'[i][field] = photos[i][field]
                     /\ (photos[i].id = id /\ t.fn = "toggleFavorite")
                            => photos'[i].isFavorite = row.isFavorite
                     /\ (photos[i].id = id /\ t.fn = "renamePhoto")
                            => /\ photos'[i].filename = t.newFilename
                               /\ photos'[i].path = row.path]_vars

\* photo 5, which is not cached, was made a favorite in the repository and
\* the cache is the one the run started with
C30_Witness ==
    /\ tasks = EmptyBag
    /\ Row(dataset, 5).isFavorite
    /\ 5 \notin Ids(photos)
    /\ photos = SubSeq(Library, 1, Len(photos))
    /\ Len(photos) = MaxCacheLen

\* ── Deletion (MutateSpec) ──

\* the call is a deletePhotos or a hardDeletePhotos
IsDeletion(t) == t.fn \in {"deletePhotos", "hardDeletePhotos"}

\* the positions of the cache whose record is not one of the given ids
KeptPositions(list, photoIds) == {i \in 1..Len(list) : list[i].id \notin photoIds}

\* C31: after a successful deletePhotos(ids) or hardDeletePhotos(ids) the cache
\* has no record with an id in ids, every other record is still there and the
\* records that remain are in the order they had; selectedPhoto is null when it
\* referred to a deleted id and is the same record otherwise.
C31_DeleteRemovesExactlyIds ==
    [][\A t \in InFlight :
         (MutationResolved(t) /\ IsDeletion(t)) =>
            LET kept == KeptPositions(photos, t.photoIds)
            IN /\ \A j \in 1..Len(photos') : photos'[j].id \notin t.photoIds
               /\ Len(photos') = Cardinality(kept)
               /\ \A i \in kept :
                     photos'[Cardinality({k \in kept : k <= i})] = photos[i]
               /\ (selectedPhoto # <<>> /\ selectedPhoto[1].id \in t.photoIds)
                     => selectedPhoto' = <<>>
               /\ (selectedPhoto = <<>> \/ selectedPhoto[1].id \notin t.photoIds)
                     => selectedPhoto' = selectedPhoto]_vars

\* photo 1 was deleted while photo 2 was open in the detail view: photos 2 and
\* 3 are what is left of the cache, in that order, and photo 2 is still open
C31_Witness ==
    /\ tasks = EmptyBag
    /\ Ids(dataset) = Ids(Library) \ {1}
    /\ Len(photos) = 2
    /\ photos[1].id = 2 /\ photos[2].id = 3
    /\ selectedPhoto = <<photos[1]>>

\* ── Forward pagination (SeqSpec) ──

\* C32: pagination moves strictly forward: with no reload and no deletion, a
\* loadMorePhotos call that resolved with a non-empty page leaves the cache at a
\* length greater than the offset it asked for, so the next call asks for a
\* greater offset and no record is fetched twice, also once the cache has reached
\* MAX_PHOTOS_IN_MEMORY and eviction has started.
C32_OffsetsStrictlyIncrease ==
    [][\A t \in InFlight :
         (IsLoadMoreFetch(t) /\ PageResolved(t) /\ Len(PageOf(t)) > 0)
            => CurrentCount' > t.offset]_vars


\* what does hold: a call that asked for an offset below MAX_PHOTOS_IN_MEMORY
\* and resolved with a non-empty page leaves the cache longer than that offset
C32_OffsetsIncreaseBelowCap ==
    [][\A t \in InFlight :
         (/\ IsLoadMoreFetch(t) /\ PageResolved(t) /\ Len(PageOf(t)) > 0
          /\ t.offset < MAX_PHOTOS_IN_MEMORY)
            => CurrentCount' > t.offset]_vars


\* ── Termination of pagination (FairSeqSpec) ──

\* C33: for every finite dataset, of more than 2100 records too, and a repository
\* that never fails, loadMorePhotos triggered again and again after the first
\* page eventually reaches hasMorePhotos = false, and from then on no further
\* fetch is issued.
C33_PaginationTerminates ==
    /\ <>(~hasMorePhotos)
    /\ [][~hasMorePhotos => tasks' = tasks]_vars

\* what does hold: a dataset of at most MAX_PHOTOS_IN_MEMORY records is paged to
\* its end, and once hasMorePhotos is false no fetch is issued
C33_TerminatesWithinCap ==
    /\ (Len(dataset) <= MAX_PHOTOS_IN_MEMORY) => <>[](~hasMorePhotos /\ Idle)
    /\ [][~hasMorePhotos => tasks' = tasks]_vars


\* ── loadMorePhotos on an album or tag result set (WindowSpec) ──

\* the result sets loadAlbumPhotos and loadTagPhotos put in the cache
ResultSets ==
    {GetAlbumPhotos(a) : a \in WindowAlbumIds} \cup {SearchPhotos(n) : n \in TagNames}

\* C34: while the cache holds the result set of loadAlbumPhotos or loadTagPhotos,
\* a loadMorePhotos call does not append pages of the main library to it: the
\* call changes nothing, or the cache holds only records of that album or tag
\* afterwards.
C34_NoLibraryPageOnResultSet ==
    [][\A t \in InFlight :
         (IsLoadMoreFetch(t) /\ PageResolved(t)) =>
            \A result \in ResultSets :
               photos = result =>
                  \/ photos' = photos
                  \/ Records(photos') \subseteq Records(result)]_vars


\* ── Multi-select mode and the selection (SelectSpec) ──

\* outside multi-select mode nothing is selected
OffMeansEmpty == ~isMultiSelectMode => selectedPhotoIds = {}

\* C35 as stated: in every state reached through toggleMultiSelect,
\* clearSelection, togglePhotoSelection, selectAllPhotos and hardDeletePhotos,
\* the selection is empty whenever multi-select mode is off
C35_ModeOffSelectionEmpty == OffMeansEmpty

\* C35, amended: clearSelection, a resolved hardDeletePhotos and toggleMultiSelect
\* leaving the mode end with the mode off and nothing selected, and a state with
\* nothing selected outside the mode is left only by togglePhotoSelection or
\* selectAllPhotos called while the mode is off (a click on a thumbnail
\* outside the mode opens the photo and selects nothing)
C35_OffEmptyUnlessDirectCall ==
    [][/\ ClearSelection => (OffMeansEmpty' /\ ~isMultiSelectMode')
       /\ (ToggleMultiSelect /\ isMultiSelectMode) => (OffMeansEmpty' /\ ~isMultiSelectMode')
       /\ \A t \in InFlight :
             (MutationResolved(t) /\ t.fn = "hardDeletePhotos")
                => (OffMeansEmpty' /\ ~isMultiSelectMode')
       /\ (OffMeansEmpty /\ ~OffMeansEmpty') =>
             /\ ~isMultiSelectMode
             /\ \/ \E id \in SelectableIds : TogglePhotoSelection(id)
                \/ SelectAllPhotos]_vars

\* a photo was opened by a click outside multi-select mode, which selected
\* nothing, and a togglePhotoSelection or selectAllPhotos call made outside the
\* mode left ids selected with the mode off
C35_Witness ==
    /\ ~isMultiSelectMode
    /\ selectedPhotoIds # {}
    /\ selectedPhoto # <<>>


\* ── Deletion and the selection (MutateSpec) ──

\* C36: after a successful deletePhotos(ids) or hardDeletePhotos(ids) the
\* selection set contains none of the deleted ids.
C36_DeletedIdsNotSelected ==
    [][\A t \in InFlight :
         (MutationResolved(t) /\ IsDeletion(t))
            => selectedPhotoIds' \cap t.photoIds = {}]_vars

\* what does hold: a successful hardDeletePhotos leaves nothing selected, and a
\* successful deletePhotos leaves the selection set as it was
C36_OnlyHardDeleteClears ==
    [][\A t \in InFlight :
         /\ (MutationResolved(t) /\ t.fn = "hardDeletePhotos") => selectedPhotoIds' = {}
         /\ (MutationResolved(t) /\ t.fn = "deletePhotos")
               => selectedPhotoIds' = selectedPhotoIds]_vars


\* ── Immediate search against a pending debounced one (SearchSpec) ──

\* C37: once searchPhotos(q) has set the search query to q, a debouncedSearch
\* update scheduled before that call never overwrites the query with its older
\* value: a timeout that is pending runs when its delay has passed, so after
\* the call no timeout carrying another query is left pending.
C37_ImmediateSearchIsFinal ==
    [][\A q \in TypedTexts :
          SearchPhotosNow(q) => \A t \in timers' : t.query = searchQuery']_vars

\* what does hold: searchPhotos writes the query and leaves the timeout table
\* and the stored handle as they are, and a pending timeout whose query is not
\* the search query writes its own query unless debouncedSearch is called again
C37_PendingTimeoutOverwrites ==
    /\ [][\A q \in TypedTexts :
             SearchPhotosNow(q) => (searchQuery' = q /\ UNCHANGED timerVars)]_vars
    /\ \A id \in 1..(MaxUiEvents + 1) : \A query \in TypedTexts :
           (\E t \in timers : t.id = id /\ t.query = query /\ searchQuery # query)
               ~> (searchQuery = query \/ searchTimer # <<id>>)


\* ── The open photo and its record in the cache (MutateSpec) ──

\* C38: through every sequence of toggleFavorite, renamePhoto, deletePhotos and
\* hardDeletePhotos calls that resolved, whenever the cache contains a record
\* with the id of selectedPhoto, the isFavorite, filename and path of that
\* record equal those of selectedPhoto.
C38_OpenPhotoAgreesWithCache ==
    selectedPhoto # <<>> =>
        \A i \in 1..Len(photos) :
            photos[i].id = selectedPhoto[1].id =>
                /\ photos[i].isFavorite = selectedPhoto[1].isFavorite
                /\ photos[i].filename = selectedPhoto[1].filename
                /\ photos[i].path = selectedPhoto[1].path

\* the photo open in the detail view was renamed and its favorite flag flipped
\* while it was open: its record in the cache shows the same name and flag
C38_Witness ==
    /\ tasks = EmptyBag
    /\ selectedPhoto # <<>>
    /\ selectedPhoto[1].filename = <<"y">>
    /\ selectedPhoto[1].isFavorite # Row(Library, selectedPhoto[1].id).isFavorite
    /\ \E i \in 1..Len(photos) : photos[i].id = selectedPhoto[1].id


\* ── Frame of the Filter Pipeline (FilterSpec) ──

\* number of positions of the sequence that hold the record
Occurrences(list, p) == Cardinality({i \in 1..Len(list) : list[i] = p})

\* C39: every record of the Filter Pipeline output is a record of the cache, a
\* record is in the output at most as often as it is in the cache (so the
\* output is no longer than the cache), and computing the output leaves the
\* content and the order of the cache as they are.
C39_OutputWithinCache ==
    LET output == filteredPhotos
    IN /\ \A j \in 1..Len(output) : \E i \in 1..Len(photos) : photos[i] = output[j]
       /\ \A p \in Records(output) : Occurrences(output, p) <= Occurrences(photos, p)
       /\ Len(output) <= Len(photos)
       /\ CacheAfterPipeline(photos, filters, searchQuery, sortBy, activeSection,
                             activeSource) = photos

\* a search text is set that a cached record with a capital letter in its
\* filename matches, and the output holds that record and leaves others out
C39_Witness ==
    /\ searchQuery # NoString
    /\ filteredPhotos # <<>>
    /\ Len(filteredPhotos) < Len(photos)
    /\ \E j \in 1..Len(filteredPhotos) :
           ToLowerCase(filteredPhotos[j].filename) # filteredPhotos[j].filename


\* ── Navigation in the detail view (DetailSpec) ──

\* the photo shown is the one at the 0-based index of the filtered sequence
ShowsIndex(shown, idx) ==
    /\ idx >= 0 /\ idx <= Len(filteredPhotos) - 1
    /\ shown = <<filteredPhotos[idx + 1]>>

\* C40: navigate and goToPhoto leave selectedPhoto as it is or set it to the
\* record at an index in [0, length - 1] of the Filter Pipeline output (the
\* neighbour of the current one for navigate, the one asked for for goToPhoto);
\* navigate("prev") at the first record, navigate("next") at the last record
\* and navigate with the selected photo outside the filtered sequence (index
\* -1) change nothing.
C40_NavigationStaysInOutput ==
    [][/\ \A direction \in {"prev", "next"} :
            Navigate(direction) =>
               /\ \/ selectedPhoto' = selectedPhoto
                  \/ ShowsIndex(selectedPhoto',
                                currentIndex + (IF direction = "prev" THEN 0 - 1 ELSE 1))
               /\ (direction = "prev" /\ currentIndex = 0)
                     => selectedPhoto' = selectedPhoto
               /\ (direction = "next" /\ currentIndex = Len(filteredPhotos) - 1)
                     => selectedPhoto' = selectedPhoto
               /\ currentIndex = 0 - 1 => selectedPhoto' = selectedPhoto
       /\ \A idx \in Indices :
            GoToPhoto(idx) =>
               \/ selectedPhoto' = selectedPhoto
               \/ ShowsIndex(selectedPhoto', idx)]_vars

\* the detail view shows the last record of a filtered sequence of several
\* records that is shorter than the cache
C40_Witness ==
    /\ Len(filteredPhotos) > 1
    /\ Len(filteredPhotos) < Len(photos)
    /\ currentIndex = Len(filteredPhotos) - 1

====
